---- MODULE Spec2Model ----
(***************************************************************************)
(* Event-analytics backend: API-key authentication, registration and       *)
(* credential lifecycle, event ingestion, and the cache-aside event        *)
(* summary.  The relational store is modelled by its tables (apps,         *)
(* api_keys, events), the key-value cache by its live entries.  A handler *)
(* is cut where it awaits a statement on the store, so that requests on    *)
(* different connections interleave as they do on the event loop; a        *)
(* transaction takes effect at its commit, and the reads that precede the  *)
(* first store statement of eventSummary (getRedis, the cache read) form   *)
(* one step with its validation.                                           *)
(***************************************************************************)
EXTENDS Integers, Sequences, FiniteSets, TLC

VARIABLES
    apps,        \* table apps: set of rows
    api_keys,    \* table api_keys: set of rows
    events,      \* table events: rows in insertion order (the table is append-only)
    short_urls,  \* table short_urls: set of rows
    cache,       \* live entries of the key-value cache
    redisOk,     \* whether getRedis() yields a connected client
    now,         \* wall clock, in seconds
    nextId,      \* number of identifiers genId has handed out, plus one
    req,         \* per connection: the request in flight and its locals
    lastResp,    \* the response a handler has just written, until it is delivered
    regLog,      \* history: the data of every 201 registration response, in order
    lastSummary  \* history: the event-summary call that stored its result last

vars == <<apps, api_keys, events, short_urls, cache, redisOk, now, nextId, req, lastResp,
          regLog, lastSummary>>

-----------------------------------------------------------------------------
(* Bounds of the model *)

MaxId == 5        \* identifiers genId hands out in one behaviour
MaxEvents == 2    \* rows the events table takes up in one behaviour
MaxTicks == 2     \* clock ticks in one behaviour
MaxLinks == 2     \* rows the short_urls table takes up in one behaviour
MaxClicks == 2    \* redirects through one short link in one behaviour

-----------------------------------------------------------------------------
(* Program constants *)

CACHE_TTL_SEC == 300
SEVEN_DAYS_SEC == 7 * 24 * 60 * 60

\* The clock advances in steps of half the cache time-to-live, so that two
\* instants can lie within one TTL and two others more than a TTL apart.
TickSec == CACHE_TTL_SEC \div 2

-----------------------------------------------------------------------------
(* Strings are sequences of characters (one-character strings); an          *)
(* identifier or an ISO instant is one opaque symbol of such a sequence.    *)

SqlNull == <<>>            \* SQL NULL / JS null in a nullable column
NoTime == <<>>             \* NULL in a TIMESTAMP NULL column; <<t>> is a value

Conns == {"c1", "c2"}      \* connections served concurrently
IngestConns == {"c1"}      \* the connection of the client that sends events
QueryConns == {"c2"}       \* the connection of the client that reads summaries

\* JS values that reach the handlers from a header, a body or a query string
Undefined == [t |-> "undefined", v |-> <<>>]
JsStr(s) == [t |-> "string", v |-> s]
JsNum(s) == [t |-> "number", v |-> s]

\* JS truthiness: undefined, "" and 0 are falsy
Truthy(x) ==
    CASE x.t = "undefined" -> FALSE
      [] x.t = "string" -> x.v # <<>>
      [] x.t = "number" -> x.v # <<"0">>

IsWhite(c) == c \in {" ", "\t"}

RECURSIVE TrimStart(_)
TrimStart(s) ==
    IF s # <<>> /\ IsWhite(Head(s)) THEN TrimStart(Tail(s)) ELSE s

RECURSIVE TrimEnd(_)
TrimEnd(s) ==
    IF s # <<>> /\ IsWhite(s[Len(s)]) THEN TrimEnd(SubSeq(s, 1, Len(s) - 1)) ELSE s

\* String.prototype.trim
Trim(s) == TrimEnd(TrimStart(s))

\* the requireds check of the handlers:
\* !x || typeof x !== 'string' || x.trim().length === 0
\* sensitivity variant: the validation without its trim() test
NotStringOrEmpty(x) == ~Truthy(x) \/ x.t # "string"

BlankOrNotString(x) ==
    \/ ~Truthy(x)
    \/ x.t # "string"
    \/ Len(Trim(x.v)) = 0

LowerChar(c) ==
    CASE c = "A" -> "a"
      [] c = "A0000000" -> "a0000000"
      [] c = "B0000000" -> "b0000000"
      [] c = "B" -> "b"
      [] c = "C" -> "c"
      [] c = "N" -> "n"
      [] c = "U" -> "u"
      [] OTHER -> c

RECURSIVE PadTrim(_)
PadTrim(s) ==
    IF s # <<>> /\ s[Len(s)] = " " THEN PadTrim(SubSeq(s, 1, Len(s) - 1)) ELSE s

\* The weight string of a value under the tables' collation
\* utf8mb4_unicode_ci: case-insensitive, trailing spaces ignored (PAD SPACE).
SqlKey(s) == [i \in 1..Len(PadTrim(s)) |-> LowerChar(PadTrim(s)[i])]

\* col = ? on a character column of these tables
SqlEq(a, b) == SqlKey(a) = SqlKey(b)

-----------------------------------------------------------------------------
(* Key generator *)

\* genId: a UUID v4, documented unique; the n-th identifier handed out
Id(n) == <<"id" \o ToString(n)>>

\* genApiKey(length = 32): crypto.randomBytes(length).toString('hex'), a
\* random lower-case hexadecimal string of 2 * length characters, written
\* here as its blocks of 8 digits.  Hex(b) is the one whose first block is b
\* and whose other blocks are zeros.
KEY_BYTES == 32

Hex(b) == [i \in 1..((2 * KEY_BYTES) \div 8) |-> IF i = 1 THEN b ELSE "00000000"]

TokenPool == {Hex("b0000000"), Hex("c0000000"), Hex("d0000000")}

-----------------------------------------------------------------------------
(* Requests *)

Idle == [pc |-> "idle", in |-> <<>>, loc |-> <<>>]

\* x-api-key values a client may present: none, the empty string, a token
\* nobody issued, the tokens the service can issue, the provisioned tokens,
\* and a provisioned token written in upper case
HeaderValues ==
    {Undefined, JsStr(<<>>), JsStr(<<"z">>)}
      \cup {JsStr(s) : s \in TokenPool \cup {Hex("a0000000"), Hex("A0000000"), Hex("e0000000")}}

\* name values of POST /api/auth/register
NameValues == {Undefined, JsStr(<<" ">>), JsStr(<<"p", " ">>)}

\* bodies of POST /api/analytics/collect
Body(n, u, d) == [event_name |-> n, user_id |-> u, device_type |-> d]

CollectBodies ==
    { Body(JsStr(<<"n">>), JsStr(<<"u">>), Undefined),
      Body(JsStr(<<" ", "n">>), JsStr(<<"w", " ">>), JsStr(<<"m">>)),
      Body(Undefined, JsStr(<<"u">>), Undefined),
      Body(JsNum(<<"5">>), JsStr(<<"u">>), Undefined),
      Body(JsStr(<<" ">>), JsStr(<<"u">>), Undefined),
      Body(JsStr(<<"n">>), Undefined, Undefined),
      Body(JsStr(<<"n">>), JsStr(<<" ">>), Undefined),
      Body(JsStr(<<"n">>), JsNum(<<"5">>), Undefined) }

Resp(op, status, rq, data) == [op |-> op, status |-> status, req |-> rq, data |-> data]

NoData == <<>>

NoResp == Resp("none", 0, <<>>, NoData)

-----------------------------------------------------------------------------
(* Initial states.  Init: the store right after the schema was created.     *)
(* InitSeeded: a store provisioned before the service starts, with two      *)
(* applications; the credential of the second carries an expiry (no handler *)
(* ever writes expires_at, so credentials issued by the service never       *)
(* expire).                                                                 *)

NoSummary == [key |-> <<>>, data |-> <<>>, at |-> 0, expired |-> FALSE]

InitService ==
    /\ events = <<>>
    /\ short_urls = {}
    /\ cache = {}
    /\ now = 0
    /\ req = [c \in Conns |-> Idle]
    /\ lastResp = NoResp
    /\ regLog = <<>>
    /\ lastSummary = NoSummary

Init ==
    /\ apps = {}
    /\ api_keys = {}
    /\ nextId = 1
    /\ redisOk = TRUE
    /\ InitService

SeedExpiry == TickSec

SeedApps == {[id |-> Id(1), name |-> <<"s">>], [id |-> Id(3), name |-> <<"t">>]}

SeedKeys ==
    { [id |-> Id(2), app_id |-> Id(1), api_key |-> Hex("a0000000"), is_revoked |-> FALSE,
       expires_at |-> NoTime, created_at |-> 0, revoked_at |-> NoTime],
      [id |-> Id(4), app_id |-> Id(3), api_key |-> Hex("e0000000"), is_revoked |-> FALSE,
       expires_at |-> <<SeedExpiry>>, created_at |-> 0, revoked_at |-> NoTime] }

\* the seed rows hold the first SeedIds generated identifiers
SeedIds == Cardinality(SeedApps) + Cardinality(SeedKeys)

InitSeeded ==
    /\ apps = SeedApps
    /\ api_keys = SeedKeys
    /\ nextId = SeedIds + 1
    /\ redisOk = TRUE
    /\ InitService

\* the same store behind a service that may or may not have a cache configured
InitSummary ==
    /\ apps = SeedApps
    /\ api_keys = SeedKeys
    /\ nextId = SeedIds + 1
    /\ redisOk \in BOOLEAN
    /\ InitService

-----------------------------------------------------------------------------
(* Authentication middleware *)

\* SELECT ... FROM api_keys ak INNER JOIN apps a ON ak.app_id = a.id
\* WHERE ak.api_key = ? AND ak.is_revoked = FALSE
\*   AND (ak.expires_at IS NULL OR ak.expires_at > NOW())
\* sensitivity variant: the lookup without its "expires_at IS NULL" branch
AuthRowsNoNull(keys, appRows, apiKey, t) ==
    { k \in keys :
        /\ SqlEq(k.api_key, apiKey)
        /\ k.is_revoked = FALSE
        /\ (k.expires_at # NoTime /\ k.expires_at[1] > t)
        /\ \E a \in appRows : a.id = k.app_id }

\* sensitivity variant: the lookup without its is_revoked test
AuthRowsRevokedToo(keys, appRows, apiKey, t) ==
    { k \in keys :
        /\ SqlEq(k.api_key, apiKey)
        /\ (k.expires_at = NoTime \/ k.expires_at[1] > t)
        /\ \E a \in appRows : a.id = k.app_id }

AuthRows(keys, appRows, apiKey, t) ==
    { k \in keys :
        /\ SqlEq(k.api_key, apiKey)
        /\ k.is_revoked = FALSE
        /\ (k.expires_at = NoTime \/ k.expires_at[1] > t)
        /\ \E a \in appRows : a.id = k.app_id }

\* sensitivity variant: req.app with its two identifiers exchanged
ReqAppSwapped(k) == [id |-> k.id, apiKeyId |-> k.app_id]

\* req.app as the middleware attaches it
ReqApp(k) == [id |-> k.app_id, apiKeyId |-> k.id]

\* the bodies of the two 401 responses
KeyRequired ==
    [error |-> <<"Unauthorized">>,
     message |-> <<"API key is required. Please provide x-api-key header.">>]

InvalidKey ==
    [error |-> <<"Unauthorized">>, message |-> <<"Invalid or revoked API key.">>]

\* sensitivity variant: a body that tells a revoked or an expired credential
\* from a token nobody issued
NoRowBodyTelling(keys, apiKey, t) ==
    IF \E k \in keys : SqlEq(k.api_key, apiKey) /\ k.is_revoked
    THEN [error |-> <<"Unauthorized">>, message |-> <<"API key is revoked.">>]
    ELSE IF \E k \in keys : SqlEq(k.api_key, apiKey) /\ k.expires_at # NoTime
                               /\ k.expires_at[1] <= t
         THEN [error |-> <<"Unauthorized">>, message |-> <<"API key has expired.">>]
         ELSE InvalidKey

\* the body sent when the lookup of apiKey yields no row (rows.length === 0)
NoRowBody(keys, apiKey, t) == InvalidKey

\* apiKeyAuth in front of a protected handler: answers 401 itself, or hands
\* the request on to the handler (next()) with req.app set.
ApiKeyAuth(c, op, hdr) ==
    /\ lastResp = NoResp
    /\ req[c].pc = "idle"
    /\ LET rq == [hdr |-> hdr]
           rows == AuthRows(api_keys, apps, hdr.v, now)
       IN IF ~Truthy(hdr) \/ rows = {}
          THEN /\ lastResp' = Resp(op, 401, rq,
                                   IF ~Truthy(hdr) THEN KeyRequired
                                   ELSE NoRowBody(api_keys, hdr.v, now))
               /\ UNCHANGED req
          ELSE /\ req' = [req EXCEPT ![c] =
                     [pc |-> op, in |-> rq,
                      loc |-> [app |-> ReqApp(CHOOSE k \in rows : TRUE)]]]
               /\ UNCHANGED lastResp
    /\ UNCHANGED <<apps, api_keys, events, cache, redisOk, short_urls, now, nextId, regLog,
                   lastSummary>>

CollectAuth(c) ==
    \E hdr \in HeaderValues : ApiKeyAuth(c, "collect", hdr)

-----------------------------------------------------------------------------
(* Event ingestion *)

\* x || null on an optional string column
OrNull(x) == IF Truthy(x) THEN x.v ELSE SqlNull

\* req.ip || req.connection.remoteAddress of the clients that send events
RemoteAddress == <<"10.0.0.9">>

EventRow(eventId, app, body, t) ==
    [id |-> eventId, app_id |-> app.id, api_key_id |-> app.apiKeyId,
     event_name |-> Trim(body.event_name.v), user_id |-> Trim(body.user_id.v),
     device_type |-> OrNull(body.device_type), ip_address |-> RemoteAddress,
     timestamp |-> t]

\* collectEvent, entered through next(): validation of req.body, then one
\* INSERT
CollectEvent(c, body) ==
    /\ lastResp = NoResp
    /\ req[c].pc = "collect"
    /\ LET rq == [body |-> body]
       IN IF BlankOrNotString(body.event_name) \/ BlankOrNotString(body.user_id)
          THEN /\ lastResp' = Resp("collect", 400, rq, NoData)
               /\ UNCHANGED <<events, nextId>>
          ELSE /\ Len(events) < MaxEvents
               /\ events' = Append(events, EventRow(Id(nextId), req[c].loc.app, body, now))
               /\ nextId' = nextId + 1
               /\ lastResp' = Resp("collect", 201, rq, [eventId |-> Id(nextId)])
    /\ req' = [req EXCEPT ![c] = Idle]
    /\ UNCHANGED <<apps, api_keys, cache, redisOk, short_urls, now, regLog, lastSummary>>

Collect(c) == \E body \in CollectBodies : CollectEvent(c, body)

-----------------------------------------------------------------------------
(* Registration and credential lifecycle *)

\* a row as INSERT INTO api_keys (id, app_id, api_key) leaves it: the other
\* columns take their defaults
NewKey(id, appId, apiKey, t) ==
    [id |-> id, app_id |-> appId, api_key |-> apiKey, is_revoked |-> FALSE,
     expires_at |-> NoTime, created_at |-> t, revoked_at |-> NoTime]

\* the constraints of api_keys: PRIMARY KEY (id), UNIQUE (api_key),
\* FOREIGN KEY (app_id) REFERENCES apps(id)
KeyInsertOk(keys, appRows, row) ==
    /\ \A k \in keys : ~SqlEq(k.id, row.id) /\ ~SqlEq(k.api_key, row.api_key)
    /\ \E a \in appRows : SqlEq(a.id, row.app_id)

\* the constraint of apps: PRIMARY KEY (id)
AppInsertOk(appRows, row) == \A a \in appRows : ~SqlEq(a.id, row.id)

\* sensitivity variant: a failed transaction whose statements stay applied
NoRollback(before, partial) == partial

\* connection.rollback(): the table as it was before the transaction, whatever
\* the statements executed so far had made of it
Rollback(before, partial) == before

\* the data of the 201 registration response
RegisterData(appId, apiKeyId, apiKey) == [appId |-> appId, apiKey |-> apiKey]

\* registerApp: validation, then one transaction (insert the application,
\* insert its credential, commit); a failing statement rolls it back.
RegisterApp(name) ==
    /\ lastResp = NoResp
    /\ IF BlankOrNotString(name)
       THEN /\ lastResp' = Resp("register", 400, <<>>, NoData)
            /\ UNCHANGED <<apps, api_keys, nextId, regLog>>
       ELSE /\ nextId + 1 <= MaxId
            /\ \E apiKey \in TokenPool :
                 LET appId == Id(nextId)
                     apiKeyId == Id(nextId + 1)
                     appRow == [id |-> appId, name |-> Trim(name.v)]
                     keyRow == NewKey(apiKeyId, appId, apiKey, now)
                 IN IF /\ AppInsertOk(apps, appRow)
                       /\ KeyInsertOk(api_keys, apps \cup {appRow}, keyRow)
                    THEN /\ apps' = apps \cup {appRow}
                         /\ api_keys' = api_keys \cup {keyRow}
                         /\ nextId' = nextId + 2
                         /\ lastResp' = Resp("register", 201, <<>>,
                                             RegisterData(appId, apiKeyId, apiKey))
                         /\ regLog' = Append(regLog, RegisterData(appId, apiKeyId, apiKey))
                    ELSE /\ apps' = Rollback(apps, IF AppInsertOk(apps, appRow)
                                                    THEN apps \cup {appRow} ELSE apps)
                         /\ api_keys' = Rollback(api_keys, api_keys)
                         /\ nextId' = nextId + 2
                         /\ lastResp' = Resp("register", 500, <<>>, NoData)
                         /\ UNCHANGED regLog
    /\ UNCHANGED <<events, cache, redisOk, short_urls, now, req, lastSummary>>

Register == \E name \in NameValues : RegisterApp(name)

\* sensitivity variant: the UPDATE without its WHERE clause
RevokeMatchesAll(keys, apiKeyId) == keys

\* UPDATE api_keys SET is_revoked = TRUE, revoked_at = NOW() WHERE id = ?
RevokeMatches(keys, apiKeyId) == {k \in keys : SqlEq(k.id, apiKeyId)}

Revoked(k, t) == [k EXCEPT !.is_revoked = TRUE, !.revoked_at = <<t>>]

\* revokeKey: one UPDATE; affectedRows is the number of rows matched
RevokeKey(apiKeyId) ==
    /\ lastResp = NoResp
    /\ IF ~Truthy(apiKeyId)
       THEN /\ lastResp' = Resp("revoke", 400, [api_key_id |-> apiKeyId], NoData)
            /\ UNCHANGED api_keys
       ELSE LET hit == RevokeMatches(api_keys, apiKeyId.v)
            IN /\ api_keys' = (api_keys \ hit) \cup {Revoked(k, now) : k \in hit}
               /\ lastResp' = Resp("revoke", IF hit = {} THEN 404 ELSE 200,
                                   [api_key_id |-> apiKeyId], NoData)
    /\ UNCHANGED <<apps, events, cache, redisOk, short_urls, now, nextId, req, regLog, lastSummary>>

\* identifiers a caller may name: none, an unknown one, or one of the rows
IdValues(rows) == {Undefined, JsStr(<<"idx">>)} \cup {JsStr(r.id) : r \in rows}

Revoke == \E apiKeyId \in IdValues(api_keys) : RevokeKey(apiKeyId)

\* UPDATE api_keys SET is_revoked = TRUE, revoked_at = NOW()
\* WHERE app_id = ? AND is_revoked = FALSE
\* sensitivity variant: the UPDATE with its is_revoked test inverted
RegenerateMatchesRevoked(keys, appId) ==
    {k \in keys : SqlEq(k.app_id, appId) /\ k.is_revoked = TRUE}

RegenerateMatches(keys, appId) ==
    {k \in keys : SqlEq(k.app_id, appId) /\ k.is_revoked = FALSE}

\* regenerateKey: one transaction (revoke the active credentials of the
\* application, insert a new one, commit); a failing statement rolls it back.
RegenerateKey(appId) ==
    /\ lastResp = NoResp
    /\ IF ~Truthy(appId)
       THEN /\ lastResp' = Resp("regenerate", 400, <<>>, NoData)
            /\ UNCHANGED <<api_keys, nextId>>
       ELSE /\ nextId <= MaxId
            /\ \E apiKey \in TokenPool :
                 LET hit == RegenerateMatches(api_keys, appId.v)
                     after == (api_keys \ hit) \cup {Revoked(k, now) : k \in hit}
                     keyRow == NewKey(Id(nextId), appId.v, apiKey, now)
                 IN IF KeyInsertOk(after, apps, keyRow)
                    THEN /\ api_keys' = after \cup {keyRow}
                         /\ nextId' = nextId + 1
                         /\ lastResp' = Resp("regenerate", 200, [app_id |-> appId.v],
                                             [apiKey |-> apiKey])
                    ELSE /\ api_keys' = Rollback(api_keys, after)
                         /\ nextId' = nextId + 1
                         /\ lastResp' = Resp("regenerate", 500, [app_id |-> appId.v], NoData)
    /\ UNCHANGED <<apps, events, cache, redisOk, short_urls, now, req, regLog, lastSummary>>

Regenerate == \E appId \in IdValues(apps) : RegenerateKey(appId)

\* regenerateKey statement by statement, for calls that run concurrently on
\* connections of their own.  The table api_keys holds the committed rows;
\* what a transaction has written is in the locals of its connection until
\* its commit.  An UPDATE locks the rows it changes until the transaction
\* ends, and a statement that needs a row another transaction has locked
\* waits for it.

\* the ids of the rows the open transaction of connection d has locked
LockedBy(d) == IF req[d].pc \in {"regen_update", "regen_insert"} THEN req[d].loc.hit ELSE {}

\* the row the open transaction of connection d has inserted, if any
InsertedBy(d) == IF req[d].pc = "regen_insert" THEN {req[d].loc.keyRow} ELSE {}

\* validation, beginTransaction and the UPDATE
RegenerateUpdate(c, appId) ==
    /\ lastResp = NoResp
    /\ req[c].pc = "idle"
    /\ IF ~Truthy(appId)
       THEN /\ lastResp' = Resp("regenerate", 400, <<>>, NoData)
            /\ UNCHANGED req
       ELSE LET hit == {k.id : k \in RegenerateMatches(api_keys, appId.v)}
            IN /\ \A d \in Conns \ {c} : hit \cap LockedBy(d) = {}
               /\ req' = [req EXCEPT ![c] =
                     [pc |-> "regen_update", in |-> [app_id |-> appId.v],
                      loc |-> [hit |-> hit, at |-> now]]]
               /\ UNCHANGED lastResp
    /\ UNCHANGED <<apps, api_keys, events, short_urls, cache, redisOk, now, nextId, regLog,
                   lastSummary>>

\* genId, genApiKey and the INSERT; a statement that fails takes the
\* transaction to its rollback and the request to its 500
RegenerateInsert(c) ==
    /\ lastResp = NoResp
    /\ req[c].pc = "regen_update"
    /\ nextId <= MaxId
    /\ \E apiKey \in TokenPool :
         LET keyRow == NewKey(Id(nextId), req[c].in.app_id, apiKey, now)
         IN /\ \A d \in Conns \ {c} : \A k \in InsertedBy(d) : ~SqlEq(k.api_key, apiKey)
            /\ IF KeyInsertOk(api_keys, apps, keyRow)
               THEN /\ req' = [req EXCEPT ![c] =
                          [pc |-> "regen_insert", in |-> req[c].in,
                           loc |-> [hit |-> req[c].loc.hit, at |-> req[c].loc.at,
                                    keyRow |-> keyRow]]]
                    /\ UNCHANGED lastResp
               ELSE /\ req' = [req EXCEPT ![c] = Idle]
                    /\ lastResp' = Resp("regenerate", 500, req[c].in, NoData)
    /\ nextId' = nextId + 1
    /\ UNCHANGED <<apps, api_keys, events, short_urls, cache, redisOk, now, regLog,
                   lastSummary>>

\* commit and the response
RegenerateCommit(c) ==
    /\ lastResp = NoResp
    /\ req[c].pc = "regen_insert"
    /\ api_keys' = {IF k.id \in req[c].loc.hit THEN Revoked(k, req[c].loc.at) ELSE k
                      : k \in api_keys} \cup {req[c].loc.keyRow}
    /\ lastResp' = Resp("regenerate", 200, req[c].in, [apiKey |-> req[c].loc.keyRow.api_key])
    /\ req' = [req EXCEPT ![c] = Idle]
    /\ UNCHANGED <<apps, events, short_urls, cache, redisOk, now, nextId, regLog,
                   lastSummary>>

RegenerateConcurrently(c) ==
    \/ \E appId \in IdValues(apps) : RegenerateUpdate(c, appId)
    \/ RegenerateInsert(c)
    \/ RegenerateCommit(c)

\* revokeKey next to open transactions: its UPDATE waits for a locked row
RevokeUnlocked ==
    \E apiKeyId \in IdValues(api_keys) :
      /\ \A d \in Conns : \A k \in RevokeMatches(api_keys, apiKeyId.v) : k.id \notin LockedBy(d)
      /\ RevokeKey(apiKeyId)

\* row.api_key.slice(-8): the last 8 characters, the last block of a token
SliceLast8(s) == <<s[Len(s)]>>

\* sensitivity variant: the entry with the token as stored
UnmaskedKey(row) ==
    [id |-> row.id, api_key |-> row.api_key,
     is_revoked |-> row.is_revoked, expires_at |-> row.expires_at,
     created_at |-> row.created_at, revoked_at |-> row.revoked_at]

\* the entry of one credential in the list: the token masked
MaskedKey(row) ==
    [id |-> row.id,
     api_key |-> IF row.is_revoked THEN <<"REVOKED">>
                 ELSE <<"*", "*", "*", "*">> \o SliceLast8(row.api_key),
     is_revoked |-> row.is_revoked, expires_at |-> row.expires_at,
     created_at |-> row.created_at, revoked_at |-> row.revoked_at]

\* SELECT ... FROM api_keys ak INNER JOIN apps a ON ak.app_id = a.id
\* WHERE ak.app_id = ?
ListRows(keys, appRows, appId) ==
    {k \in keys : SqlEq(k.app_id, appId) /\ \E a \in appRows : a.id = k.app_id}

\* sensitivity variant: ORDER BY created_at ASC
OldestFirst(rows) ==
    { s \in [1..Cardinality(rows) -> rows] :
        /\ \A i, j \in DOMAIN s : i < j => s[i] # s[j] /\ s[i].created_at <= s[j].created_at }

\* ORDER BY created_at DESC: every order of the rows that respects it
NewestFirst(rows) ==
    { s \in [1..Cardinality(rows) -> rows] :
        /\ \A i, j \in DOMAIN s : i < j => s[i] # s[j] /\ s[i].created_at >= s[j].created_at }

\* getApiKey: one SELECT, then the mapping that masks the tokens
GetApiKey(appId) ==
    /\ lastResp = NoResp
    /\ IF ~Truthy(appId)
       THEN lastResp' = Resp("list", 400, [app_id |-> appId], NoData)
       ELSE \E rows \in NewestFirst(ListRows(api_keys, apps, appId.v)) :
              lastResp' = Resp("list", 200, [app_id |-> appId],
                               [i \in DOMAIN rows |-> MaskedKey(rows[i])])
    /\ UNCHANGED <<apps, api_keys, events, cache, redisOk, short_urls, now, nextId, req, regLog,
                   lastSummary>>

List == \E appId \in IdValues(apps) : GetApiKey(appId)

-----------------------------------------------------------------------------
(* Event summary: GET /api/analytics/event-summary (no authentication)      *)

\* req.query
Query(event, startDate, endDate, app_id) ==
    [event |-> event, startDate |-> startDate, endDate |-> endDate, app_id |-> app_id]

\* explicit ranges, with and without the application filter; a missing event;
\* an unparsable date
SummaryQueries ==
    { Query(JsStr(<<"n">>), JsStr(<<"1970-01-01T00:02:30Z">>), JsStr(<<"1970-01-01T00:05:00Z">>), Undefined),
      Query(JsStr(<<"n">>), JsStr(<<"1970-01-01T00:02:30Z">>), JsStr(<<"1970-01-01T00:05:00Z">>), JsStr(Id(1))),
      Query(Undefined, Undefined, Undefined, JsStr(Id(1))),
      Query(JsStr(<<"n">>), JsStr(<<"b", "a", "d">>), Undefined, Undefined) }

\* A Date is <<t>> with t in seconds since the epoch, or <<>> (Invalid Date).
InvalidDate == <<>>

\* new Date(string) on the date strings the clients send
NewDate(s) ==
    CASE s = <<"1970-01-01T00:02:30Z">> -> <<2 * 60 + 30>>
      [] s = <<"1970-01-01T00:05:00Z">> -> <<5 * 60>>
      [] OTHER -> InvalidDate

\* Date.prototype.toISOString: one symbol that spells the instant
ToISOString(d) == <<ToString(d[1]) \o "Z">>

\* sensitivity variant: a key without the two instants
CacheKeyNoInstants(q, start, end) ==
    <<"event_summary:">> \o q.event.v \o <<":">>
      \o (IF Truthy(q.app_id) THEN q.app_id.v ELSE <<"all">>)

\* the template literal of the cache key
CacheKey(q, start, end) ==
    <<"event_summary:">> \o q.event.v \o <<":">>
      \o (IF Truthy(q.app_id) THEN q.app_id.v ELSE <<"all">>)
      \o <<":">> \o ToISOString(start) \o <<":">> \o ToISOString(end)

\* sensitivity variant: the range with its upper end excluded
InRangeStrict(ts, start, end) == ts >= start[1] /\ ts < end[1]

\* timestamp >= ? AND timestamp <= ?
InRange(ts, start, end) == ts >= start[1] /\ ts <= end[1]

\* the WHERE clause shared by the two queries: positions of the matching rows
SummaryMatches(evs, q, start, end) ==
    { i \in DOMAIN evs :
        /\ SqlEq(evs[i].event_name, q.event.v)
        /\ (Truthy(q.app_id) => SqlEq(evs[i].app_id, q.app_id.v))
        /\ InRange(evs[i].timestamp, start, end) }

\* parseInt(x, 10) of a count: the number whose decimal spelling String(x) is
ParseInt(x, max) == CHOOSE k \in 0..max : ToString(k) = ToString(x)

\* GROUP BY device_type: one row per group, the group's device_type being
\* that of its first row
GroupedRows(evs, q, start, end) ==
    LET m == SummaryMatches(evs, q, start, end)
        group(i) == {j \in m : SqlEq(evs[j].device_type, evs[i].device_type)}
        first(i) == CHOOSE j \in group(i) : \A k \in group(i) : j <= k
    IN { [device_type |-> evs[first(i)].device_type,
          total_count |-> Cardinality(group(i)),
          unique_users |-> Cardinality({SqlKey(evs[j].user_id) : j \in group(i)}),
          device_count |-> Cardinality(group(i))] : i \in m }

\* the rows of a query without ORDER BY: any order
AnyOrder(rows) ==
    { s \in [1..Cardinality(rows) -> rows] : \A i, j \in DOMAIN s : i < j => s[i] # s[j] }

\* SELECT COUNT(DISTINCT user_id)
DistinctUsers(evs, q, start, end) ==
    Cardinality({SqlKey(evs[i].user_id) : i \in SummaryMatches(evs, q, start, end)})

\* sensitivity variant: the total read off the first row alone
SumTotalsFirstRow(rows, max) ==
    IF rows = <<>> THEN 0 ELSE ParseInt(rows[1].total_count, max)

RECURSIVE SumTotals(_, _)
\* rows.reduce((sum, row) => sum + parseInt(row.total_count, 10), 0)
SumTotals(rows, max) ==
    IF rows = <<>> THEN 0
    ELSE SumTotals(SubSeq(rows, 1, Len(rows) - 1), max)
           + ParseInt(rows[Len(rows)].total_count, max)

\* the result object built from the two row sets
Result(q, start, end, rows, uniqueUsersCount, max) ==
    [event_name |-> q.event.v,
     app_id |-> IF Truthy(q.app_id) THEN q.app_id.v ELSE SqlNull,
     date_range |-> [start |-> ToISOString(start), end |-> ToISOString(end)],
     summary |-> [total_count |-> SumTotals(rows, max), unique_users |-> uniqueUsersCount],
     device_breakdown |->
        [i \in DOMAIN rows |->
           [device_type |-> IF rows[i].device_type = SqlNull
                            THEN <<"u", "n", "k", "n", "o", "w", "n">>
                            ELSE rows[i].device_type,
            count |-> ParseInt(rows[i].device_count, max)]]]

\* JSON.stringify(result): the members in the order of the object literal
JsonStringify(r) ==
    <<"{", r.event_name, r.app_id, r.date_range.start, r.date_range.end,
      r.summary.total_count, r.summary.unique_users, r.device_breakdown, "}">>

\* sensitivity variant: a parse that exchanges the two counters
JsonParseSwapped(p) ==
    [event_name |-> p[2], app_id |-> p[3], date_range |-> [start |-> p[4], end |-> p[5]],
     summary |-> [total_count |-> p[7], unique_users |-> p[6]], device_breakdown |-> p[8]]

\* JSON.parse(cached)
JsonParse(p) ==
    [event_name |-> p[2], app_id |-> p[3], date_range |-> [start |-> p[4], end |-> p[5]],
     summary |-> [total_count |-> p[6], unique_users |-> p[7]], device_breakdown |-> p[8]]

\* what is remembered of a summary request for its response
SummaryReq(q, key, start, end, n0) ==
    [q |-> q, key |-> key, start |-> start, end |-> end, n0 |-> n0]

SummaryBody(data, cached) == [data |-> data, cached |-> cached]

\* JSON.parse accepts the text: it is what JSON.stringify writes
JsonValid(p) == Len(p) = 9 /\ p[1] = "{" /\ p[9] = "}"

\* sensitivity variant: an error of the cache read that fails the request
CacheErrorRethrown == "fail"

\* catch (cacheError) around the cache read: logged, then on to the store
CacheErrorOutcome == "miss"

\* the try block of the cache read: redis.get, if (cached), JSON.parse
CacheRead(entries, key, getOk) ==
    LET found == {e \in entries : e.key = key}
    IN IF ~getOk THEN "throw"
       ELSE IF found = {} THEN "miss"
       ELSE IF JsonValid((CHOOSE e \in found : TRUE).payload) THEN "hit"
       ELSE "throw"

\* eventSummary up to its first query: validation, the date range, the cache
\* key, getRedis() and the cache read (redis.get throws when getOk is false).
\* A hit answers at once.
SummaryStartWith(c, q, getOk) ==
    /\ lastResp = NoResp
    /\ req[c].pc = "idle"
    /\ LET end == IF Truthy(q.endDate) THEN NewDate(q.endDate.v) ELSE <<now>>
           start == IF Truthy(q.startDate) THEN NewDate(q.startDate.v)
                    ELSE <<now - SEVEN_DAYS_SEC>>
       IN IF ~Truthy(q.event) \/ start = InvalidDate \/ end = InvalidDate
          THEN /\ lastResp' = Resp("summary", 400, [q |-> q], NoData)
               /\ UNCHANGED <<req, lastSummary>>
          ELSE LET key == CacheKey(q, start, end)
                   read == IF redisOk THEN CacheRead(cache, key, getOk) ELSE "miss"
                   outcome == IF read = "throw" THEN CacheErrorOutcome ELSE read
                   rq == SummaryReq(q, key, start, end, Len(events))
               IN CASE outcome = "hit" ->
                         LET data == JsonParse((CHOOSE e \in cache : e.key = key).payload)
                         IN /\ lastResp' = Resp("summary", 200, rq, SummaryBody(data, TRUE))
                            /\ UNCHANGED <<req, lastSummary>>
                    [] outcome = "miss" ->
                         /\ req' = [req EXCEPT ![c] =
                                      [pc |-> "grouped", in |-> rq, loc |-> [redis |-> redisOk]]]
                         /\ UNCHANGED <<lastResp, lastSummary>>
                    [] outcome = "fail" ->
                         /\ lastResp' = Resp("summary", 500, rq, NoData)
                         /\ UNCHANGED <<req, lastSummary>>
    /\ UNCHANGED <<apps, api_keys, events, cache, redisOk, short_urls, now, nextId, regLog>>

\* the call when the cache client works
SummaryStart(c, q) == SummaryStartWith(c, q, TRUE)

\* the grouped query
SummaryGrouped(c) ==
    /\ lastResp = NoResp
    /\ req[c].pc = "grouped"
    /\ \E rows \in AnyOrder(GroupedRows(events, req[c].in.q, req[c].in.start, req[c].in.end)) :
         req' = [req EXCEPT ![c].pc = "distinct",
                            ![c].loc = [redis |-> req[c].loc.redis, rows |-> rows]]
    /\ UNCHANGED <<apps, api_keys, events, cache, redisOk, short_urls, now, nextId, lastResp, regLog,
                   lastSummary>>

\* the distinct-user query
SummaryDistinct(c) ==
    /\ lastResp = NoResp
    /\ req[c].pc = "distinct"
    /\ LET n == DistinctUsers(events, req[c].in.q, req[c].in.start, req[c].in.end)
       IN req' = [req EXCEPT ![c].pc = "store",
                             ![c].loc = [redis |-> req[c].loc.redis, rows |-> req[c].loc.rows,
                                         uniqueUsersCount |-> n]]
    /\ UNCHANGED <<apps, api_keys, events, cache, redisOk, short_urls, now, nextId, lastResp, regLog,
                   lastSummary>>

\* the result, its setEx under the cache key (which throws when setOk is
\* false: caught and logged), and the answer
SummaryStoreWith(c, setOk) ==
    /\ lastResp = NoResp
    /\ req[c].pc = "store"
    /\ LET rq == req[c].in
           result == Result(rq.q, rq.start, rq.end, req[c].loc.rows,
                            req[c].loc.uniqueUsersCount, Len(events))
           stored == req[c].loc.redis /\ setOk
       IN /\ cache' = IF stored
                      THEN {e \in cache : e.key # rq.key}
                             \cup {[key |-> rq.key, payload |-> JsonStringify(result),
                                    expires |-> now + CACHE_TTL_SEC]}
                      ELSE cache
          /\ lastResp' = Resp("summary", 200, rq, SummaryBody(result, FALSE))
          /\ lastSummary' = IF stored
                            THEN [key |-> rq.key, data |-> result, at |-> now,
                                  expired |-> FALSE]
                            ELSE NoSummary
    /\ req' = [req EXCEPT ![c] = Idle]
    /\ UNCHANGED <<apps, api_keys, events, redisOk, short_urls, now, nextId, regLog>>

\* the call when the cache client works
SummaryStore(c) == SummaryStoreWith(c, TRUE)

Summary(c) ==
    \/ \E q \in SummaryQueries : SummaryStart(c, q)
    \/ SummaryGrouped(c)
    \/ SummaryDistinct(c)
    \/ SummaryStore(c)

-----------------------------------------------------------------------------
(* Short links: POST /api/shorten (behind apiKeyAuth) and GET /s/:slug      *)

\* absolute URLs, each one opaque symbol; any other text fails new URL()
UrlSymbols == {"http://a/", "http://b/"}

\* new URL(url) succeeds: the parser strips leading and trailing spaces
UrlParses(s) == Len(Trim(s)) = 1 /\ Trim(s)[1] \in UrlSymbols

ShortenBody(url, slug) == [url |-> url, slug |-> slug]

\* bodies of POST /api/shorten: without url, with text that is no URL, with
\* an explicit slug, with the same slug in upper case, and without slug
ShortenBodies ==
    { ShortenBody(Undefined, Undefined),
      ShortenBody(JsStr(<<"x">>), JsStr(<<"a">>)),
      ShortenBody(JsStr(<<"http://a/", " ">>), JsStr(<<"a">>)),
      ShortenBody(JsStr(<<"http://b/">>), JsStr(<<"A">>)),
      ShortenBody(JsStr(<<"http://b/">>), Undefined) }

\* crypto.randomBytes(4)
SLUG_BYTES == 4

\* the end index of .substring(0, 8)
SLUG_CHARS == 8

\* the base64url alphabet of RFC 4648, section 5
Base64UrlAlphabet ==
    <<"A", "B", "C", "D", "E", "F", "G", "H", "I", "J", "K", "L", "M",
      "N", "O", "P", "Q", "R", "S", "T", "U", "V", "W", "X", "Y", "Z",
      "a", "b", "c", "d", "e", "f", "g", "h", "i", "j", "k", "l", "m",
      "n", "o", "p", "q", "r", "s", "t", "u", "v", "w", "x", "y", "z",
      "0", "1", "2", "3", "4", "5", "6", "7", "8", "9", "-", "_">>

\* the digit of weight 64^k of v, as a character
Base64UrlDigit(v, k) == Base64UrlAlphabet[((v \div (64 ^ k)) % 64) + 1]

\* Buffer.prototype.toString('base64url'): three bytes give four
\* characters; a rest of one or two bytes gives two or three characters,
\* the last bits filled with zeros, and no padding character
RECURSIVE Base64Url(_)
Base64Url(b) ==
    IF Len(b) = 0 THEN <<>>
    ELSE IF Len(b) = 1
    THEN LET v == b[1] * 16
         IN <<Base64UrlDigit(v, 1), Base64UrlDigit(v, 0)>>
    ELSE IF Len(b) = 2
    THEN LET v == (b[1] * 256 + b[2]) * 4
         IN <<Base64UrlDigit(v, 2), Base64UrlDigit(v, 1), Base64UrlDigit(v, 0)>>
    ELSE LET v == b[1] * 65536 + b[2] * 256 + b[3]
         IN <<Base64UrlDigit(v, 3), Base64UrlDigit(v, 2), Base64UrlDigit(v, 1),
              Base64UrlDigit(v, 0)>> \o Base64Url(SubSeq(b, 4, Len(b)))

\* String.prototype.substring(start, end) for 0 <= start <= end
Substring(s, start, end) ==
    SubSeq(s, start + 1, IF end < Len(s) THEN end ELSE Len(s))

\* crypto.randomBytes(4).toString('base64url').substring(0, 8)
GeneratedSlug(bytes) == Substring(Base64Url(bytes), 0, SLUG_CHARS)

\* outcomes of crypto.randomBytes(4): two whose slugs differ in case only
RandomBytes ==
    { [i \in 1..SLUG_BYTES |-> 0],
      [i \in 1..SLUG_BYTES |-> <<105, 166, 154, 104>>[((i - 1) % 4) + 1]] }

RandomSlugs == {GeneratedSlug(b) : b \in RandomBytes}

\* a row as INSERT INTO short_urls (id, app_id, slug, original_url) leaves it
ShortUrlRow(id, appId, slug, url, t) ==
    [id |-> id, app_id |-> appId, slug |-> slug, original_url |-> url,
     click_count |-> 0, created_at |-> t, updated_at |-> t]

\* sensitivity variant: the lookup by another column
SlugRowsById(links, slug) == {l \in links : SqlEq(l.id, slug)}

\* SELECT id FROM short_urls WHERE slug = ?
SlugRows(links, slug) == {l \in links : SqlEq(l.slug, slug)}

\* createShortUrl, entered through next(), up to its first query: validation
\* of req.body, the choice of the slug, and the existence check
CreateShortUrlCheck(c, body) ==
    /\ lastResp = NoResp
    /\ req[c].pc = "shorten"
    /\ LET rq == [body |-> body]
       IN IF BlankOrNotString(body.url) \/ ~UrlParses(body.url.v)
          THEN /\ lastResp' = Resp("shorten", 400, rq, NoData)
               /\ req' = [req EXCEPT ![c] = Idle]
          ELSE \E finalSlug \in (IF Truthy(body.slug) THEN {body.slug.v} ELSE RandomSlugs) :
                 IF SlugRows(short_urls, finalSlug) # {}
                 THEN /\ lastResp' = Resp("shorten", 409, rq, NoData)
                      /\ req' = [req EXCEPT ![c] = Idle]
                 ELSE /\ req' = [req EXCEPT ![c] =
                            [pc |-> "shorten_insert", in |-> rq,
                             loc |-> [app |-> req[c].loc.app, finalSlug |-> finalSlug]]]
                      /\ UNCHANGED lastResp
    /\ UNCHANGED <<apps, api_keys, events, short_urls, cache, redisOk, now, nextId, regLog,
                   lastSummary>>

\* createShortUrl from genId() on: the INSERT, which UNIQUE(slug) may refuse,
\* and the response
CreateShortUrlInsert(c) ==
    /\ lastResp = NoResp
    /\ req[c].pc = "shorten_insert"
    /\ LET finalSlug == req[c].loc.finalSlug
           url == Trim(req[c].in.body.url.v)
           row == ShortUrlRow(Id(nextId), req[c].loc.app.id, finalSlug, url, now)
       IN IF SlugRows(short_urls, finalSlug) = {}
          THEN /\ Cardinality(short_urls) < MaxLinks
               /\ short_urls' = short_urls \cup {row}
               /\ lastResp' = Resp("shorten", 201, req[c].in,
                                   [slug |-> finalSlug,
                                    short_url |-> <<"http://host/s/">> \o finalSlug,
                                    original_url |-> url])
          ELSE /\ lastResp' = Resp("shorten", 500, req[c].in, NoData)
               /\ UNCHANGED short_urls
    /\ nextId' = nextId + 1
    /\ req' = [req EXCEPT ![c] = Idle]
    /\ UNCHANGED <<apps, api_keys, events, cache, redisOk, now, regLog, lastSummary>>

ShortenAuth(c) == \E k \in SeedKeys : ApiKeyAuth(c, "shorten", JsStr(k.api_key))

CreateShortUrl(c) ==
    \/ \E body \in ShortenBodies : CreateShortUrlCheck(c, body)
    \/ CreateShortUrlInsert(c)

\* req.params.slug of GET /s/:slug: the slugs of the bodies above, a
\* generated one, and one nobody created
SlugValues == {<<"a">>, <<"A">>, <<"z">>} \cup {GeneratedSlug([i \in 1..SLUG_BYTES |-> 0])}

\* ip_address VARCHAR(45)
IP_ADDRESS_MAX == 45

\* req.ip under app.set('trust proxy', 1) is the last entry of the request's
\* X-Forwarded-For header, whatever text it is: here one character too many
\* for the column
LongAddress == [i \in 1..(IP_ADDRESS_MAX + 1) |-> "f"]

\* req.ip of the visitors
VisitorAddresses == {<<"10.0.0.1">>, LongAddress}

\* a value for a VARCHAR(n) column is stored (the server's default strict
\* mode refuses a longer one with an error)
FitsColumn(v, n) == Len(v) <= n

\* the row of the click event that redirectShortUrl inserts
ClickEventRow(eventId, link, apiKeyId, ip, t) ==
    [id |-> eventId, app_id |-> link.app_id, api_key_id |-> apiKeyId,
     event_name |-> <<"short_url_click">>, user_id |-> <<"anonymous_">> \o ip,
     device_type |-> SqlNull, ip_address |-> ip, timestamp |-> t]

\* sensitivity variant: the lookup without its is_revoked test
KeysOfApp(keys, appId) == {k \in keys : SqlEq(k.app_id, appId)}

\* SELECT id FROM api_keys WHERE app_id = ? AND is_revoked = FALSE LIMIT 1
ActiveKeys(keys, appId) == {k \in keys : SqlEq(k.app_id, appId) /\ k.is_revoked = FALSE}

\* UPDATE short_urls SET click_count = click_count + 1 WHERE id = ?
\* (updated_at is ON UPDATE CURRENT_TIMESTAMP)
\* sensitivity variant: the UPDATE without a WHERE clause
ClickedAll(links, id, t) ==
    {[l EXCEPT !.click_count = @ + 1, !.updated_at = t] : l \in links}

Clicked(links, id, t) ==
    {IF SqlEq(l.id, id) THEN [l EXCEPT !.click_count = @ + 1, !.updated_at = t] ELSE l
       : l \in links}

\* redirectShortUrl, its calls serialized: the lookup of the slug, the
\* UPDATE of the counter, the click event logged under some active
\* credential of the owner if there is one, and the redirect; an INSERT
\* that fails is caught and answered 500, the UPDATE before it standing
\* (the statements run outside a transaction)
RedirectShortUrl(slug, ip) ==
    /\ lastResp = NoResp
    /\ LET rows == SlugRows(short_urls, slug)
           rq == [slug |-> slug]
       IN IF rows = {}
          THEN /\ lastResp' = Resp("redirect", 404, rq, NoData)
               /\ UNCHANGED <<short_urls, events, nextId>>
          ELSE \E shortUrl \in rows :
                 /\ shortUrl.click_count < MaxClicks
                 /\ short_urls' = Clicked(short_urls, shortUrl.id, now)
                 /\ LET apiKeys == ActiveKeys(api_keys, shortUrl.app_id)
                        found == Resp("redirect", 302, rq,
                                      [location |-> shortUrl.original_url])
                    IN IF apiKeys = {}
                       THEN /\ UNCHANGED <<events, nextId>>
                            /\ lastResp' = found
                       ELSE IF ~FitsColumn(ip, IP_ADDRESS_MAX)
                       THEN /\ UNCHANGED <<events, nextId>>
                            /\ lastResp' = Resp("redirect", 500, rq, NoData)
                       ELSE /\ Len(events) < MaxEvents
                            /\ \E k \in apiKeys :
                                 events' = Append(events,
                                     ClickEventRow(Id(nextId), shortUrl, k.id, ip, now))
                            /\ nextId' = nextId + 1
                            /\ lastResp' = found
    /\ UNCHANGED <<apps, api_keys, cache, redisOk, now, req, regLog, lastSummary>>

Redirect == \E slug \in SlugValues : \E ip \in VisitorAddresses : RedirectShortUrl(slug, ip)

\* visitors whose address the column holds
SeedRedirect ==
    \E slug \in SlugValues : \E ip \in VisitorAddresses :
        FitsColumn(ip, IP_ADDRESS_MAX) /\ RedirectShortUrl(slug, ip)

-----------------------------------------------------------------------------
(* User statistics: userStats, and the routes of the analytics router       *)

RECENT_LIMIT == 10

StatsQuery(user_id, app_id) == [user_id |-> user_id, app_id |-> app_id]

\* req.query of GET /api/analytics/user-stats: without user_id, for the user
\* id the click events of a visitor carry, and for a user id without events
StatsQueries ==
    { StatsQuery(Undefined, Undefined),
      StatsQuery(JsStr(<<"anonymous_", "10.0.0.1">>), Undefined),
      StatsQuery(JsStr(<<"anonymous_", "10.0.0.1">>), JsStr(Id(1))),
      StatsQuery(JsStr(<<"nobody">>), Undefined) }

\* WHERE user_id = ? [AND app_id = ?]: the positions of the matching rows
StatsMatches(evs, q) ==
    { i \in DOMAIN evs :
        /\ SqlEq(evs[i].user_id, q.user_id.v)
        /\ Truthy(q.app_id) => SqlEq(evs[i].app_id, q.app_id.v) }

\* SELECT COUNT(*) as total_events, MIN(timestamp), MAX(timestamp), ip_address
\* ... GROUP BY ip_address ORDER BY last_seen DESC LIMIT 1: the rows this
\* query may return, one per address whose last event is the latest
StatsRows(evs, q) ==
    LET idx == StatsMatches(evs, q)
        Group(ip) == {i \in idx : evs[i].ip_address = ip}
        LastSeen(ip) == CHOOSE t \in {evs[i].timestamp : i \in Group(ip)} :
                          \A i \in Group(ip) : evs[i].timestamp <= t
        FirstSeen(ip) == CHOOSE t \in {evs[i].timestamp : i \in Group(ip)} :
                           \A i \in Group(ip) : evs[i].timestamp >= t
        ips == {evs[i].ip_address : i \in idx}
    IN { [total_events |-> Cardinality(Group(ip)), first_seen |-> FirstSeen(ip),
          last_seen |-> LastSeen(ip), ip_address |-> ip] :
           ip \in {a \in ips : \A o \in ips : LastSeen(o) <= LastSeen(a)} }

\* SELECT event_name, timestamp, properties ... ORDER BY timestamp DESC
\* LIMIT 10: every result the ordering allows
RecentEvents(evs, q) ==
    LET idx == StatsMatches(evs, q)
        n == IF Cardinality(idx) < RECENT_LIMIT THEN Cardinality(idx) ELSE RECENT_LIMIT
    IN { [k \in 1..n |-> [event_name |-> evs[s[k]].event_name,
                          timestamp |-> evs[s[k]].timestamp]] :
           s \in { f \in [1..n -> idx] :
                     /\ \A j, k \in 1..n : j < k =>
                          f[j] # f[k] /\ evs[f[j]].timestamp >= evs[f[k]].timestamp
                     /\ \A i \in idx : (\A k \in 1..n : f[k] # i) =>
                          \A k \in 1..n : evs[i].timestamp <= evs[f[k]].timestamp } }

\* userStats: the responses the handler may give; it writes nothing
UserStatsResponses(evs, q) ==
    IF ~Truthy(q.user_id)
    THEN {Resp("user-stats", 400, [q |-> q], NoData)}
    ELSE IF StatsRows(evs, q) = {}
         THEN {Resp("user-stats", 404, [q |-> q],
                    [error |-> <<"Not Found">>,
                     message |-> <<"No events found for this user.">>])}
         ELSE { Resp("user-stats", 200, [q |-> q],
                     [user_id |-> q.user_id.v,
                      app_id |-> IF Truthy(q.app_id) THEN q.app_id.v ELSE SqlNull,
                      total_events |-> ParseInt(stats.total_events, Len(evs)),
                      first_seen |-> stats.first_seen,
                      last_seen |-> stats.last_seen,
                      ip_address |-> stats.ip_address,
                      recent_events |-> recent]) :
                  stats \in StatsRows(evs, q), recent \in RecentEvents(evs, q) }

\* the paths the analytics router has a route for: /user-stats is not among
\* them, its router.get is commented out
AnalyticsRoutes == {<<"POST", "/collect">>, <<"GET", "/event-summary">>}

\* the application's 404 handler, which takes every request no router took
RouteNotFound(op, method, path, rq) ==
    Resp(op, 404, rq,
         [error |-> <<"Not Found">>,
          message |-> <<"Route ", method, " ", path, " not found">>])

\* GET /api/analytics/user-stats
UserStatsRequest(q) ==
    /\ lastResp = NoResp
    /\ lastResp' \in (IF <<"GET", "/user-stats">> \in AnalyticsRoutes
                      THEN UserStatsResponses(events, q)
                      ELSE {RouteNotFound("user-stats", "GET", "/api/analytics/user-stats",
                                          [q |-> q])})
    /\ UNCHANGED <<apps, api_keys, events, short_urls, cache, redisOk, now, nextId, req,
                   regLog, lastSummary>>

UserStats == \E q \in StatsQueries : UserStatsRequest(q)

-----------------------------------------------------------------------------
(* Clock *)

Tick ==
    /\ lastResp = NoResp
    /\ now < MaxTicks * TickSec
    /\ now' = now + TickSec
    /\ cache' = {e \in cache : e.expires > now'}
    /\ lastSummary' = IF lastSummary.key # <<>> /\ lastSummary.at + CACHE_TTL_SEC <= now'
                      THEN [NoSummary EXCEPT !.key = lastSummary.key, !.expired = TRUE]
                      ELSE lastSummary
    /\ UNCHANGED <<apps, api_keys, events, redisOk, short_urls, nextId, req, lastResp, regLog>>

\* the response leaves the process
Deliver ==
    /\ lastResp # NoResp
    /\ lastResp' = NoResp
    /\ UNCHANGED <<apps, api_keys, events, cache, redisOk, short_urls, now, nextId, req, regLog,
                   lastSummary>>

-----------------------------------------------------------------------------

\* an empty body: POST /api/analytics/collect as a mere probe of the credential
EmptyBody == Body(Undefined, Undefined, Undefined)

Probe(c) == CollectEvent(c, EmptyBody)

\* Credential lifecycle, from an empty store; the protected requests are probes.
\* The clock stands still here: the credentials these handlers create carry
\* no expiry, and nothing else in them reads the clock.
Next ==
    \/ Register
    \/ Revoke
    \/ Regenerate
    \/ List
    \/ \E c \in IngestConns : CollectAuth(c)
    \/ \E c \in IngestConns : Probe(c)
    \/ Deliver

Spec == Init /\ [][Next]_vars

\* Ingestion against a provisioned store whose credentials get revoked and expire.
NextIngest ==
    \/ \E c \in IngestConns : CollectAuth(c)
    \/ \E c \in IngestConns : Collect(c)
    \/ Revoke
    \/ Tick
    \/ Deliver

SpecIngest == InitSeeded /\ [][NextIngest]_vars

\* the clients of the two provisioned applications: each presents its token
\* and reports the events of its own user, the second with a device type
SeedAuth(c) == \E k \in SeedKeys : ApiKeyAuth(c, "collect", JsStr(k.api_key))

EventBody(app) ==
    IF app.id = Id(1)
    THEN Body(JsStr(<<"n">>), JsStr(<<"u">>), Undefined)
    ELSE Body(JsStr(<<" ", "n">>), JsStr(<<"w", " ">>), JsStr(<<"m">>))

SeedCollect(c) ==
    /\ req[c].pc = "collect"
    /\ CollectEvent(c, EventBody(req[c].loc.app))

\* Ingestion next to event-summary requests, over the provisioned store
NextSummary ==
    \/ \E c \in IngestConns : SeedAuth(c)
    \/ \E c \in IngestConns : SeedCollect(c)
    \/ \E c \in QueryConns : Summary(c)
    \/ Tick
    \/ Deliver

SpecSummary == InitSummary /\ [][NextSummary]_vars

\* A cache that fails: the client may be missing, redis.get and redis.setEx
\* may throw at any call, and the entry of one key may hold text that is no
\* JSON (written by somebody else, never expiring within a behaviour).
CorruptEntry ==
    [key |-> CacheKey(Query(JsStr(<<"n">>), JsStr(<<"1970-01-01T00:02:30Z">>),
                            JsStr(<<"1970-01-01T00:05:00Z">>), Undefined),
                      NewDate(<<"1970-01-01T00:02:30Z">>), NewDate(<<"1970-01-01T00:05:00Z">>)),
     payload |-> <<"<", "h", "t", "m", "l", ">">>,
     expires |-> (MaxTicks + 1) * TickSec]

InitCacheFaults ==
    /\ apps = SeedApps
    /\ api_keys = SeedKeys
    /\ nextId = SeedIds + 1
    /\ redisOk \in BOOLEAN
    /\ events = <<>>
    /\ short_urls = {}
    /\ cache \in {{}, {CorruptEntry}}
    /\ now = 0
    /\ req = [c \in Conns |-> Idle]
    /\ lastResp = NoResp
    /\ regLog = <<>>
    /\ lastSummary = NoSummary

SummaryWithFaults(c) ==
    \/ \E q \in SummaryQueries : \E getOk \in BOOLEAN : SummaryStartWith(c, q, getOk)
    \/ SummaryGrouped(c)
    \/ SummaryDistinct(c)
    \/ \E setOk \in BOOLEAN : SummaryStoreWith(c, setOk)

\* the client of the first provisioned application
FirstAuth(c) == \E k \in {x \in SeedKeys : x.app_id = Id(1)} : ApiKeyAuth(c, "collect", JsStr(k.api_key))

NextCacheFaults ==
    \/ \E c \in IngestConns : FirstAuth(c)
    \/ \E c \in IngestConns : SeedCollect(c)
    \/ \E c \in QueryConns : SummaryWithFaults(c)
    \/ Tick
    \/ Deliver

SpecCacheFaults == InitCacheFaults /\ [][NextCacheFaults]_vars

\* Short links over the provisioned store: the clients of both applications
\* create links, visitors follow them, credentials get revoked.
NextShort ==
    \/ \E c \in IngestConns : ShortenAuth(c)
    \/ \E c \in IngestConns : CreateShortUrl(c)
    \/ SeedRedirect
    \/ UserStats
    \/ Revoke
    \/ Deliver

SpecShort == InitSeeded /\ [][NextShort]_vars

\* The credentials of the provisioned applications, regenerated, revoked and
\* listed while the clock advances
NextList ==
    \/ Regenerate
    \/ Revoke
    \/ List
    \/ Tick
    \/ Deliver

SpecList == InitSeeded /\ [][NextList]_vars

\* One provisioned application whose credential is regenerated on two
\* connections at once, and revoked; the clock stands still
InitOneApp ==
    /\ apps = {a \in SeedApps : a.id = Id(1)}
    /\ api_keys = {k \in SeedKeys : k.app_id = Id(1)}
    /\ nextId = 3
    /\ redisOk = TRUE
    /\ InitService

NextRegenerate ==
    \/ \E c \in Conns : RegenerateConcurrently(c)
    \/ RevokeUnlocked
    \/ Deliver

SpecRegenerate == InitOneApp /\ [][NextRegenerate]_vars

\* Short links created on two connections at once
NextShorten ==
    \/ \E c \in Conns : ShortenAuth(c)
    \/ \E c \in Conns : CreateShortUrl(c)
    \/ Deliver

SpecShorten == InitSeeded /\ [][NextShorten]_vars

\* the link each of the two provisioned applications creates
LinkBody(app) ==
    IF app.id = Id(1)
    THEN ShortenBody(JsStr(<<"http://a/", " ">>), JsStr(<<"a">>))
    ELSE ShortenBody(JsStr(<<"http://b/">>), JsStr(<<"z">>))

SeedShorten(c) ==
    \/ req[c].pc = "shorten" /\ CreateShortUrlCheck(c, LinkBody(req[c].loc.app))
    \/ CreateShortUrlInsert(c)

\* Events of both kinds while credentials expire: the clients of the
\* provisioned applications send events and create links, visitors follow
\* the links
NextEvents ==
    \/ \E c \in IngestConns : SeedAuth(c)
    \/ \E c \in IngestConns : SeedCollect(c)
    \/ \E c \in IngestConns : ShortenAuth(c)
    \/ \E c \in IngestConns : SeedShorten(c)
    \/ SeedRedirect
    \/ Tick
    \/ Deliver

SpecEvents == InitSeeded /\ [][NextEvents]_vars

\* the provisioned store after each application has created its link
InitLinked ==
    /\ apps = SeedApps
    /\ api_keys = SeedKeys
    /\ nextId = SeedIds + 3
    /\ redisOk = TRUE
    /\ events = <<>>
    /\ short_urls = { ShortUrlRow(Id(SeedIds + 1), Id(1), <<"a">>, <<"http://a/">>, 0),
                      ShortUrlRow(Id(SeedIds + 2), Id(3), <<"z">>, <<"http://b/">>, 0) }
    /\ cache = {}
    /\ now = 0
    /\ req = [c \in Conns |-> Idle]
    /\ lastResp = NoResp
    /\ regLog = <<>>
    /\ lastSummary = NoSummary

\* Everything that writes to the events table, next to revocations:
\* ingestion and redirects from both kinds of visitor through the links
\* already created; the clock stands
NextAppend ==
    \/ \E c \in IngestConns : SeedAuth(c)
    \/ \E c \in IngestConns : SeedCollect(c)
    \/ Redirect
    \/ Revoke
    \/ Deliver

SpecAppend == InitLinked /\ [][NextAppend]_vars

\* Redirects from both kinds of visitor through the links of the provisioned
\* applications, whose credentials get revoked
NextRedirect ==
    \/ \E c \in IngestConns : ShortenAuth(c)
    \/ \E c \in IngestConns : SeedShorten(c)
    \/ Redirect
    \/ Revoke
    \/ Deliver

SpecRedirect == InitSeeded /\ [][NextRedirect]_vars

\* apiKeyAuth in front of createShortUrl, for any header
ShortenKeyAuth(c) == \E hdr \in HeaderValues : ApiKeyAuth(c, "shorten", hdr)

\* The credential lifecycle from an empty store next to the requests that
\* present credentials: ingestion (the probes) and link creation
NextRevoked ==
    \/ Register
    \/ Revoke
    \/ Regenerate
    \/ \E c \in IngestConns : CollectAuth(c)
    \/ \E c \in IngestConns : Probe(c)
    \/ \E c \in IngestConns : ShortenKeyAuth(c)
    \/ \E c \in IngestConns : SeedShorten(c)
    \/ Deliver

SpecRevoked == Init /\ [][NextRevoked]_vars

\* req.query of summary requests over one explicit range: without and with
\* the application filter, with the filter value "all", and two whose event
\* name and filter contain the separator of the cache key
KeyQueries ==
    LET s == JsStr(<<"1970-01-01T00:02:30Z">>)
        e == JsStr(<<"1970-01-01T00:05:00Z">>)
    IN { Query(JsStr(<<"n">>), s, e, Undefined),
         Query(JsStr(<<"n">>), s, e, JsStr(<<"all">>)),
         Query(JsStr(<<"n">>), s, e, JsStr(Id(1))),
         Query(JsStr(<<"n", ":">> \o Id(1)), s, e, Undefined),
         Query(JsStr(<<"n">>), s, e, JsStr(Id(1) \o <<":", "all">>)) }

KeySummary(c) ==
    \/ \E q \in KeyQueries : SummaryStart(c, q)
    \/ SummaryGrouped(c)
    \/ SummaryDistinct(c)
    \/ SummaryStore(c)

\* Summary requests that differ in event name and application filter, next
\* to ingestion, with a working cache
NextCacheKey ==
    \/ \E c \in IngestConns : SeedAuth(c)
    \/ \E c \in IngestConns : SeedCollect(c)
    \/ \E c \in QueryConns : KeySummary(c)
    \/ Tick
    \/ Deliver

SpecCacheKey == InitSeeded /\ [][NextCacheKey]_vars

\* req.query of summary requests that leave the end, the start, or both to
\* the default window
WindowQueries ==
    { Query(JsStr(<<"n">>), Undefined, Undefined, Undefined),
      Query(JsStr(<<"n">>), JsStr(<<"1970-01-01T00:02:30Z">>), Undefined, Undefined),
      Query(JsStr(<<"n">>), Undefined, JsStr(<<"1970-01-01T00:05:00Z">>), Undefined) }

WindowSummary(c) ==
    \/ \E q \in WindowQueries : SummaryStart(c, q)
    \/ SummaryGrouped(c)
    \/ SummaryDistinct(c)
    \/ SummaryStore(c)

\* Default-window summary requests while the clock advances, with a working
\* cache and a store that holds no events
NextWindow ==
    \/ \E c \in QueryConns : WindowSummary(c)
    \/ Tick
    \/ Deliver

SpecWindow == InitSeeded /\ [][NextWindow]_vars


-----------------------------------------------------------------------------
(* Vocabulary of the properties *)

\* a credential row is usable at instant t
Usable(k, t) == k.is_revoked = FALSE /\ (k.expires_at = NoTime \/ k.expires_at[1] > t)

\* the header carries exactly the token of a credential row usable at instant t
PresentsUsableToken(keys, hdr, t) ==
    hdr.t = "string" /\ \E k \in keys : k.api_key = hdr.v /\ Usable(k, t)

\* a step in which apiKeyAuth calls next() on connection c
AuthPasses(c) == req[c].pc = "idle" /\ req'[c].pc = "collect"

\* a step in which apiKeyAuth answers by itself
AuthRejects == lastResp = NoResp /\ lastResp'.op = "collect" /\ req' = req

\* a step in which collectEvent answers on connection c
HandlerAnswers(c) == req[c].pc = "collect" /\ req'[c].pc = "idle" /\ lastResp'.op = "collect"

\* a required body field as the contract words it
NonBlankString(x) == x.t = "string" /\ \E i \in DOMAIN x.v : ~IsWhite(x.v[i])

\* C1: apiKeyAuth lets a request through if and only if the presented
\* x-api-key equals the token of a credential row that, at lookup time, is not
\* revoked and not expired; otherwise it answers 401 and the handler is not
\* invoked (the connection stays idle, the events table is untouched).
C1_AuthIffUsableToken ==
    [][\A c \in Conns :
         /\ AuthPasses(c) => PresentsUsableToken(api_keys, req'[c].in.hdr, now)
         /\ AuthRejects =>
              /\ lastResp'.status = 401
              /\ ~PresentsUsableToken(api_keys, lastResp'.req.hdr, now)
              /\ events' = events]_vars

\* C2: every 201 registration returns an application id that no earlier
\* registration returned, and the returned token passes apiKeyAuth (resolving
\* to that application) whenever it is presented while its credential row is
\* still not revoked.
C2_RegisterDistinctAndUsable ==
    [][/\ \A i, j \in DOMAIN regLog' : i # j => regLog'[i].appId # regLog'[j].appId
       /\ AuthRejects =>
            ~\E i \in DOMAIN regLog : \E k \in api_keys :
                /\ lastResp'.req.hdr = JsStr(regLog[i].apiKey)
                /\ k.api_key = regLog[i].apiKey
                /\ k.is_revoked = FALSE
       /\ \A c \in Conns : \A i \in DOMAIN regLog :
            (AuthPasses(c) /\ req'[c].in.hdr = JsStr(regLog[i].apiKey))
               => req'[c].loc.app.id = regLog[i].appId]_vars

C2_Witness ==
    /\ Len(regLog) = 2
    /\ \E c \in Conns : req[c].pc = "collect" /\ req[c].in.hdr = JsStr(regLog[2].apiKey)

\* a step in which regenerateKey commits and answers 200
RegenerateAnswers == lastResp = NoResp /\ lastResp'.op = "regenerate" /\ lastResp'.status = 200

\* C3: when a regenerate call for an application completes, every credential
\* of the application that was active before is listed with is_revoked = true
\* and no longer authenticates, and the returned secret differs from every
\* earlier secret of the application and authenticates for it.
C3_RegenerateRevokesAndIssues ==
    [][RegenerateAnswers =>
         LET a == lastResp'.req.app_id
             tok == lastResp'.data.apiKey
             before == {k \in api_keys : k.app_id = a /\ k.is_revoked = FALSE}
         IN /\ \A k \in before :
                 /\ \A rows \in NewestFirst(ListRows(api_keys', apps', a)) :
                      \E i \in DOMAIN rows :
                          MaskedKey(rows[i]).id = k.id /\ MaskedKey(rows[i]).is_revoked = TRUE
                 /\ AuthRows(api_keys', apps', k.api_key, now') = {}
            /\ \A k \in api_keys : k.app_id = a => k.api_key # tok
            /\ \E k \in AuthRows(api_keys', apps', tok, now') : k.app_id = a]_vars

C3_Witness ==
    /\ lastResp.op = "regenerate"
    /\ lastResp.status = 200
    /\ Cardinality({k \in api_keys : k.app_id = lastResp.req.app_id /\ k.is_revoked}) = 2

C5_UnusableTokenIs401 ==
    [][/\ \A c \in Conns :
            ~AuthPasses(c) \/ PresentsUsableToken(api_keys, req'[c].in.hdr, now)
       /\ (lastResp = NoResp /\ lastResp'.op = "collect" /\ lastResp'.status = 401)
            => events' = events /\ req' = req]_vars

\* C6: an authenticated ingestion request whose event_name or user_id is
\* missing, not a string, or empty after trimming answers 400 and leaves the
\* events table unchanged.
C6_BlankFieldIs400 ==
    [][\A c \in Conns :
         (/\ HandlerAnswers(c)
          /\ \/ ~NonBlankString(lastResp'.req.body.event_name)
             \/ ~NonBlankString(lastResp'.req.body.user_id))
         => lastResp'.status = 400 /\ events' = events]_vars

C6_Witness ==
    /\ lastResp.op = "collect"
    /\ lastResp.status = 400
    /\ lastResp.req.body.event_name = JsStr(<<" ">>)
    /\ Len(events) = 1

\* a step in which eventSummary answers 200
SummaryAnswers == lastResp = NoResp /\ lastResp'.op = "summary" /\ lastResp'.status = 200

\* the events acknowledged before the request rq began that rq asks for
AskedFor(evs, rq) ==
    { i \in 1..rq.n0 :
        /\ evs[i].event_name = rq.q.event.v
        /\ (rq.q.app_id = Undefined \/ evs[i].app_id = rq.q.app_id.v)
        /\ evs[i].timestamp >= rq.start[1]
        /\ evs[i].timestamp <= rq.end[1] }

\* C7 as stated: every event-summary answer counts, in total_count, every
\* event of the requested name (and application) and range whose ingestion
\* had answered 201 before the summary request began.
C7_EveryLaterSummaryCounts ==
    [][SummaryAnswers =>
         lastResp'.data.data.summary.total_count
            >= Cardinality(AskedFor(events, lastResp'.req))]_vars

\* C7, amended: every event-summary answer computed from the store
\* (cached = false) counts every such event; an answer served from the cache
\* is the payload stored up to CACHE_TTL_SEC earlier and may not.
C7_FreshSummaryCounts ==
    [][(SummaryAnswers /\ lastResp'.data.cached = FALSE) =>
         lastResp'.data.data.summary.total_count
            >= Cardinality(AskedFor(events, lastResp'.req))]_vars

C7_Witness ==
    /\ lastResp.op = "summary"
    /\ lastResp.status = 200
    /\ lastResp.data.cached = FALSE
    /\ lastResp.req.q.app_id # Undefined
    /\ lastResp.req.n0 = 2
    /\ Cardinality(AskedFor(events, lastResp.req)) = 1
    /\ lastResp.data.data.summary.total_count = 1

\* a step in which connection c begins an event-summary call with valid
\* parameters, and the cache key of that call
SummaryBegins(c) ==
    /\ req[c].pc = "idle"
    /\ req'[c].pc = "grouped" \/ (SummaryAnswers /\ req' = req)

BegunKey(c) == IF req'[c].pc = "grouped" THEN req'[c].in.key ELSE lastResp'.req.key

\* C8: with the cache available, after a call that answered cached = false
\* and stored its payload, the next call with the same event name,
\* application filter, start and end that begins within the TTL answers
\* cached = true with exactly the data of the first and runs no store query,
\* whatever was ingested in between.
C8_SecondCallWithinTtlIsCached ==
    [][\A c \in Conns :
         (/\ SummaryBegins(c)
          /\ redisOk
          /\ lastSummary.data # <<>>
          /\ BegunKey(c) = lastSummary.key
          /\ now < lastSummary.at + CACHE_TTL_SEC)
         => /\ SummaryAnswers
            /\ lastResp'.data.cached = TRUE
            /\ lastResp'.data.data = lastSummary.data
            /\ req' = req
            /\ events' = events]_vars

C8_Witness ==
    /\ lastResp.op = "summary"
    /\ lastResp.status = 200
    /\ lastResp.data.cached = TRUE
    /\ lastResp.req.key = lastSummary.key
    /\ lastResp.data.data = lastSummary.data
    /\ now > lastSummary.at
    /\ lastResp.data.data.summary.total_count = 1
    /\ Cardinality(AskedFor(events, lastResp.req)) = 2

\* the aggregate of the first k events of the store for the request rq,
\* the device breakdown taken as a set
Aggregate(evs, k, rq) ==
    LET m == {i \in 1..k : i \in SummaryMatches(evs, rq.q, rq.start, rq.end)}
        dev(i) == IF evs[i].device_type = SqlNull
                  THEN <<"u", "n", "k", "n", "o", "w", "n">> ELSE evs[i].device_type
    IN [total_count |-> Cardinality(m),
        unique_users |-> Cardinality({evs[i].user_id : i \in m}),
        device_breakdown |->
           {[device_type |-> dev(i),
             count |-> Cardinality({j \in m : dev(j) = dev(i)})] : i \in m}]

SameAggregate(data, agg) ==
    /\ data.summary.total_count = agg.total_count
    /\ data.summary.unique_users = agg.unique_users
    /\ {data.device_breakdown[i] : i \in DOMAIN data.device_breakdown} = agg.device_breakdown

\* a step in which eventSummary, on connection c, stores and answers
SummaryCompletes(c) == req[c].pc = "store" /\ req'[c].pc = "idle"

\* C9: once the cache entry of a key has expired, the next call for that key
\* does not answer from the cache; it answers cached = false with data equal
\* to the aggregate of the events that were in the store at one moment of the
\* call, and stores that result under the key with the configured TTL.
C9_RecomputeAfterExpiry ==
    [][\A c \in Conns :
         /\ (SummaryBegins(c) /\ redisOk /\ lastSummary.expired
               /\ BegunKey(c) = lastSummary.key)
            => req'[c].pc = "grouped"
         /\ (SummaryCompletes(c) /\ req[c].loc.redis /\ lastSummary.expired
               /\ req[c].in.key = lastSummary.key)
            => /\ lastResp'.status = 200
               /\ lastResp'.data.cached = FALSE
               /\ \E k \in req[c].in.n0..Len(events) :
                     SameAggregate(lastResp'.data.data, Aggregate(events, k, req[c].in))
               /\ \E e \in cache' :
                     /\ e.key = req[c].in.key
                     /\ JsonParse(e.payload) = lastResp'.data.data
                     /\ e.expires = now + CACHE_TTL_SEC]_vars

\* C10: in every event-summary response, summary.unique_users is at most
\* summary.total_count.
C10_UniqueUsersAtMostTotal ==
    (lastResp.op = "summary" /\ lastResp.status = 200)
       => lastResp.data.data.summary.unique_users <= lastResp.data.data.summary.total_count

RECURSIVE SumCounts(_)
\* the sum of the count members of a device breakdown
SumCounts(b) == IF b = <<>> THEN 0 ELSE SumCounts(SubSeq(b, 1, Len(b) - 1)) + b[Len(b)].count

UnknownName == <<"u", "n", "k", "n", "o", "w", "n">>

\* C11: in every event-summary response total_count is the sum of the counts
\* of device_breakdown; no entry carries a null device type, and in a freshly
\* computed response the matching events without device type are one entry
\* named 'unknown' that counts them all.
C11_TotalIsSumOfBreakdown ==
    (lastResp.op = "summary" /\ lastResp.status = 200) =>
       LET d == lastResp.data.data
           rq == lastResp.req
           nulls(k) == {i \in 1..k : /\ i \in SummaryMatches(events, rq.q, rq.start, rq.end)
                                    /\ events[i].device_type = SqlNull}
       IN /\ d.summary.total_count = SumCounts(d.device_breakdown)
          /\ \A i \in DOMAIN d.device_breakdown : d.device_breakdown[i].device_type # SqlNull
          /\ lastResp.data.cached = FALSE =>
               \E k \in rq.n0..Len(events) :
                  \/ nulls(k) = {} /\ \A i \in DOMAIN d.device_breakdown :
                                         d.device_breakdown[i].device_type # UnknownName
                  \/ nulls(k) # {} /\ \E i \in DOMAIN d.device_breakdown :
                        /\ d.device_breakdown[i].device_type = UnknownName
                        /\ d.device_breakdown[i].count = Cardinality(nulls(k))
                        /\ \A j \in DOMAIN d.device_breakdown :
                              d.device_breakdown[j].device_type = UnknownName => j = i

C11_Witness ==
    /\ lastResp.op = "summary"
    /\ lastResp.status = 200
    /\ lastResp.data.data.summary.total_count = 2
    /\ Len(lastResp.data.data.device_breakdown) = 2
    /\ lastResp.data.data.device_breakdown[2].device_type = UnknownName

\* the text is JSON of the shape the handler stores
WellFormed(p) == Len(p) = 9 /\ p[1] = "{" /\ p[9] = "}"

\* the query parameters pass the validation
ValidQuery(q) ==
    /\ q.event.t = "string" /\ q.event.v # <<>>
    /\ q.startDate = Undefined \/ NewDate(q.startDate.v) # InvalidDate
    /\ q.endDate = Undefined \/ NewDate(q.endDate.v) # InvalidDate

\* C12: whatever the cache does (no client, redis.get throws, the entry is
\* no JSON, redis.setEx throws), an event-summary request with valid
\* parameters never answers an error; it answers cached = true only from a
\* well-formed entry of a configured cache, and otherwise cached = false with
\* the counts its own two store queries computed during the call.
C12_CacheNeverFailsSummary ==
    [][\A c \in Conns :
         /\ (lastResp = NoResp /\ lastResp'.op = "summary")
              => \/ lastResp'.status = 200
                 \/ lastResp'.status = 400 /\ ~ValidQuery(lastResp'.req.q)
         /\ (SummaryBegins(c) /\ SummaryAnswers)
              => /\ lastResp'.data.cached = TRUE
                 /\ redisOk
                 /\ \E e \in cache :
                      /\ e.key = lastResp'.req.key
                      /\ WellFormed(e.payload)
                      /\ lastResp'.data.data = JsonParse(e.payload)
         /\ SummaryCompletes(c)
              => /\ lastResp'.status = 200
                 /\ lastResp'.data.cached = FALSE
                 /\ \E k1, k2 \in req[c].in.n0..Len(events) :
                      LET d == lastResp'.data.data
                          a1 == Aggregate(events, k1, req[c].in)
                          a2 == Aggregate(events, k2, req[c].in)
                      IN /\ k1 <= k2
                         /\ d.summary.total_count = a1.total_count
                         /\ {d.device_breakdown[i] : i \in DOMAIN d.device_breakdown}
                               = a1.device_breakdown
                         /\ d.summary.unique_users = a2.unique_users]_vars

C12_Witness ==
    /\ redisOk
    /\ lastResp.op = "summary"
    /\ lastResp.status = 200
    /\ lastResp.data.cached = FALSE
    /\ lastResp.data.data.summary.total_count = 2
    /\ \E e \in cache : e.key = lastResp.req.key /\ ~WellFormed(e.payload)

\* a step in which registerApp or regenerateKey answers 500
TransactionFails ==
    /\ lastResp = NoResp
    /\ lastResp'.op \in {"register", "regenerate"}
    /\ lastResp'.status = 500

\* C13: a registration or a regeneration that answers 500 leaves apps and
\* api_keys exactly as they were; hence every application has a credential,
\* and a failed regeneration leaves no credential revoked.
C13_FailedTransactionChangesNothing ==
    [][/\ TransactionFails => apps' = apps /\ api_keys' = api_keys
       /\ \A a \in apps' : \E k \in api_keys' : k.app_id = a.id]_vars

C13_Witness ==
    /\ lastResp.op = "regenerate"
    /\ lastResp.status = 500
    /\ \E k \in api_keys : k.app_id = lastResp.req.app_id /\ k.is_revoked = FALSE

-----------------------------------------------------------------------------
(* Secrets in responses *)

\* the strings in the body of a response
BodyStrings(r) ==
    IF r.data = NoData THEN {}
    ELSE IF r.status = 401 THEN {r.data.error, r.data.message}
    ELSE CASE r.op = "register" -> {r.data.appId, r.data.apiKey}
           [] r.op = "regenerate" -> {r.data.apiKey}
           [] r.op = "list" ->
                {r.data[i].id : i \in DOMAIN r.data} \cup {r.data[i].api_key : i \in DOMAIN r.data}
           [] r.op = "collect" -> {r.data.eventId}
           [] r.op = "summary" ->
                {r.data.data.event_name, r.data.data.app_id}
                  \cup {r.data.data.device_breakdown[i].device_type :
                          i \in DOMAIN r.data.data.device_breakdown}
           [] r.op = "shorten" -> {r.data.slug, r.data.short_url, r.data.original_url}
           [] r.op = "redirect" -> {r.data.location}
           [] OTHER -> {}

\* the text s holds the text t somewhere
Contains(s, t) == \E i \in 0..(Len(s) - Len(t)) : SubSeq(s, i + 1, i + Len(t)) = t

\* the response carries the full token of a stored credential
RevealsToken(r, keys) == \E s \in BodyStrings(r) : \E k \in keys : Contains(s, k.api_key)

\* C14 as stated: only the response of a registration carries the full token
\* of a credential; no response of list, revoke, regenerate, ingestion,
\* aggregation or the short links does.
C14_OnlyRegistrationReveals ==
    RevealsToken(lastResp, api_keys) => lastResp.op = "register"

\* C14, amended: a response carries the full token of a credential only when
\* it is the 201 of a registration or the 200 of a regeneration, and then the
\* token is the one just issued; the list shows tokens masked.
C14_OnlyIssuingResponsesReveal ==
    /\ RevealsToken(lastResp, api_keys) =>
         /\ \/ lastResp.op = "register" /\ lastResp.status = 201
            \/ lastResp.op = "regenerate" /\ lastResp.status = 200
         /\ \A k \in api_keys :
              (\E s \in BodyStrings(lastResp) : Contains(s, k.api_key))
                => k.api_key = lastResp.data.apiKey /\ k.is_revoked = FALSE
    /\ lastResp.op = "list" /\ lastResp.status = 200 =>
         \A i \in DOMAIN lastResp.data :
           \A k \in api_keys : lastResp.data[i].api_key # k.api_key

\* a list that shows an active credential, beside a revoked one
C14_Witness ==
    /\ lastResp.op = "list"
    /\ lastResp.status = 200
    /\ \E i, j \in DOMAIN lastResp.data :
         lastResp.data[i].is_revoked = FALSE /\ lastResp.data[j].is_revoked = TRUE

-----------------------------------------------------------------------------

\* a request presents the token of a credential that is revoked, or expired,
\* or a token that is the token of no credential
TokenOfRevoked(hdr) == \E k \in api_keys : k.api_key = hdr.v /\ k.is_revoked
TokenOfExpired(hdr) ==
    \E k \in api_keys : /\ k.api_key = hdr.v /\ ~k.is_revoked
                        /\ k.expires_at # NoTime /\ k.expires_at[1] <= now
TokenOfNobody(hdr) == \A k \in api_keys : ~SqlEq(k.api_key, hdr.v)

\* C15: the 401 that answers a token never issued, the token of a revoked
\* credential and the token of an expired credential is one and the same
\* response, in status and in body: each of the three gets the 401 with the
\* body InvalidKey.
C15_DenialsIdentical ==
    [][(/\ lastResp = NoResp
        /\ lastResp'.op = "collect"
        /\ "hdr" \in DOMAIN lastResp'.req
        /\ Truthy(lastResp'.req.hdr)
        /\ \/ TokenOfRevoked(lastResp'.req.hdr)
           \/ TokenOfExpired(lastResp'.req.hdr)
           \/ TokenOfNobody(lastResp'.req.hdr))
       => lastResp'.status = 401 /\ lastResp'.data = InvalidKey]_vars

\* the token of a credential revoked while the expiring one has expired has
\* just been answered
C15_Witness ==
    /\ lastResp.op = "collect"
    /\ lastResp.status = 401
    /\ "hdr" \in DOMAIN lastResp.req
    /\ TokenOfRevoked(lastResp.req.hdr)
    /\ \E h \in HeaderValues : Truthy(h) /\ TokenOfExpired(h)
    /\ \E h \in HeaderValues : Truthy(h) /\ TokenOfNobody(h)

-----------------------------------------------------------------------------
(* Short links *)

\* connection c's createShortUrl takes its first step: it answers, or goes
\* on to its INSERT
ShortenBegins(c) ==
    /\ req[c].pc = "shorten"
    /\ req'[c] # req[c]
    /\ lastResp = NoResp

\* req.body of the request that takes this step
BegunBody(c) == IF req'[c].pc = "idle" THEN lastResp'.req.body ELSE req'[c].in.body

\* C16: a request to create a short link, with a url that passes validation
\* and an explicit slug under which a link exists already, is answered 409,
\* and the store is as before: the existing link (owner, target URL, click
\* counter) and every other row of every table.
C16_DuplicateSlugIs409 ==
    [][\A c \in Conns :
         (/\ ShortenBegins(c)
          /\ ~BlankOrNotString(BegunBody(c).url)
          /\ UrlParses(BegunBody(c).url.v)
          /\ Truthy(BegunBody(c).slug)
          /\ \E l \in short_urls : SqlEq(l.slug, BegunBody(c).slug.v))
         => /\ lastResp'.op = "shorten"
            /\ lastResp'.status = 409
            /\ short_urls' = short_urls
            /\ apps' = apps /\ api_keys' = api_keys /\ events' = events
            /\ cache' = cache]_vars

\* the client of the other application has asked for the slug of a link that
\* was followed before, spelled in the other case
C16_Witness ==
    /\ lastResp.op = "shorten"
    /\ lastResp.status = 409
    /\ Truthy(lastResp.req.body.slug)
    /\ \E l \in short_urls :
         /\ SqlEq(l.slug, lastResp.req.body.slug.v)
         /\ l.slug # lastResp.req.body.slug.v
         /\ l.click_count > 0
         /\ l.original_url # Trim(lastResp.req.body.url.v)

\* a redirect has just been answered 302
RedirectAnswers302 ==
    /\ lastResp = NoResp
    /\ lastResp'.op = "redirect"
    /\ lastResp'.status = 302

\* a redirect has just been answered 500
RedirectAnswers500 ==
    /\ lastResp = NoResp
    /\ lastResp'.op = "redirect"
    /\ lastResp'.status = 500

\* the row of link l after the step
After(l) == CHOOSE m \in short_urls' : m.id = l.id

\* C17: with the calls serialized, a redirect on an existing slug that
\* answers 302 raises the click counter of the link of that slug by exactly
\* 1, redirects to the URL stored for it, and leaves every other link as it
\* was; no step that is not a redirect changes the counter of any link.
\* Hence after k such redirects the counter is its initial value plus k.
\* (What a redirect answered 500 does to the counter is C29's subject.)
C17_RedirectCountsOnce ==
    [][/\ \A l \in short_urls : \E m \in short_urls' : m.id = l.id
       /\ IF RedirectAnswers302
          THEN \E l \in short_urls :
                 /\ SqlEq(l.slug, lastResp'.req.slug)
                 /\ lastResp'.data.location = l.original_url
                 /\ After(l).click_count = l.click_count + 1
                 /\ After(l).original_url = l.original_url
                 /\ After(l).slug = l.slug
                 /\ After(l).app_id = l.app_id
                 /\ \A o \in short_urls \ {l} : After(o) = o
                 /\ Cardinality(short_urls') = Cardinality(short_urls)
          ELSE RedirectAnswers500
               \/ \A l \in short_urls : After(l).click_count = l.click_count]_vars

\* the second redirect through a link, beside a link nobody followed
C17_Witness ==
    /\ lastResp.op = "redirect"
    /\ lastResp.status = 302
    /\ \E l, o \in short_urls :
         /\ SqlEq(l.slug, lastResp.req.slug)
         /\ l.click_count = 2
         /\ o # l
         /\ o.click_count = 0

-----------------------------------------------------------------------------
(* Keys that match no row *)

\* the tables
Store == <<apps, api_keys, events, short_urls>>

\* a request whose key matches no row has just been answered: a revoke for a
\* credential id no row has, a redirect for a slug no link has, user-stats
\* for a user id no event has (of the application asked for, if any)
AnswersUnknownKey ==
    /\ lastResp = NoResp
    /\ \/ /\ lastResp'.op = "revoke"
          /\ Truthy(lastResp'.req.api_key_id)
          /\ \A k \in api_keys : ~SqlEq(k.id, lastResp'.req.api_key_id.v)
       \/ /\ lastResp'.op = "redirect"
          /\ \A l \in short_urls : ~SqlEq(l.slug, lastResp'.req.slug)
       \/ /\ lastResp'.op = "user-stats"
          /\ Truthy(lastResp'.req.q.user_id)
          /\ StatsMatches(events, lastResp'.req.q) = {}

\* C18: a revoke with a credential id that matches no row, a redirect with a
\* slug that matches no row and a user-stats request for a user id that
\* matches no event are each answered 404, and the store is as before.
C18_UnknownKeyIs404 ==
    [][AnswersUnknownKey =>
         /\ lastResp'.status = 404
         /\ Store' = Store
         /\ cache' = cache]_vars

\* an unknown slug has just been answered while the store holds a link that
\* was followed, an event, and a revoked credential
C18_Witness ==
    /\ lastResp.op = "redirect"
    /\ lastResp.status = 404
    /\ \E l \in short_urls : l.click_count > 0
    /\ events # <<>>
    /\ \E k \in api_keys : k.is_revoked

-----------------------------------------------------------------------------
(* User statistics *)

\* the smaller of two numbers
Min2(a, b) == IF a < b THEN a ELSE b

\* C19: GET /api/analytics/user-stats for a user id with N >= 1 stored events
\* (of the application asked for, if any) is answered 200 with total_events
\* = N and with min(N, 10) recent_events, the most recent first, also when
\* the events of the user come from several addresses.
C19_UserStatsCountsAll ==
    [][(/\ lastResp = NoResp
        /\ lastResp'.op = "user-stats"
        /\ Truthy(lastResp'.req.q.user_id)
        /\ StatsMatches(events, lastResp'.req.q) # {})
       => /\ lastResp'.status = 200
          /\ lastResp'.data.total_events = Cardinality(StatsMatches(events, lastResp'.req.q))
          /\ Len(lastResp'.data.recent_events)
               = Min2(Cardinality(StatsMatches(events, lastResp'.req.q)), RECENT_LIMIT)
          /\ \A j, k \in DOMAIN lastResp'.data.recent_events : j < k =>
               lastResp'.data.recent_events[j].timestamp
                 >= lastResp'.data.recent_events[k].timestamp]_vars

-----------------------------------------------------------------------------
(* Revoking twice *)

\* a revoke of a credential that is revoked already has just been answered
SecondRevoke ==
    /\ lastResp = NoResp
    /\ lastResp'.op = "revoke"
    /\ Truthy(lastResp'.req.api_key_id)
    /\ \E k \in api_keys : SqlEq(k.id, lastResp'.req.api_key_id.v) /\ k.is_revoked

\* C20: a second revoke of a credential leaves its row exactly as the first
\* revoke left it, the revoked flag and the revocation time included, and is
\* always answered with the same status.
C20_SecondRevokeChangesNothing ==
    [][SecondRevoke => api_keys' = api_keys /\ lastResp'.status = 200]_vars

-----------------------------------------------------------------------------
(* The list of credentials *)

\* the credential rows of the application a list request names
Listed == {k \in api_keys : SqlEq(k.app_id, lastResp.req.app_id.v)}

\* the mask of a token: four asterisks and the last 8 characters
Mask(token) == <<"*", "*", "*", "*">> \o <<token[Len(token)]>>

-----------------------------------------------------------------------------
(* Concurrent regenerations *)

\* the non-revoked credentials of an application
ActiveOf(keys, appId) == {k \in keys : SqlEq(k.app_id, appId) /\ k.is_revoked = FALSE}

-----------------------------------------------------------------------------
(* Concurrent creations of short links *)

\* connection c's createShortUrl executes its INSERT and answers
ShortenInserts(c) ==
    /\ req[c].pc = "shorten_insert"
    /\ req'[c].pc = "idle"
    /\ lastResp = NoResp

\* C23: whatever the interleaving of the creations, no two rows of
\* short_urls have the same slug; a creation that passed the existence
\* check and finds, at its INSERT, that a link of its slug exists meanwhile
\* is answered 500, not 409, and inserts nothing, and a creation that
\* inserts adds exactly one row.
C23_SlugsStayUnique ==
    [][/\ \A l, m \in short_urls' : SqlEq(l.slug, m.slug) => l = m
       /\ \A c \in Conns :
            ShortenInserts(c) =>
              IF \E l \in short_urls : SqlEq(l.slug, req[c].loc.finalSlug)
              THEN /\ lastResp'.op = "shorten" /\ lastResp'.status = 500
                   /\ short_urls' = short_urls
              ELSE /\ lastResp'.op = "shorten" /\ lastResp'.status = 201
                   /\ \E n \in short_urls' :
                        /\ n \notin short_urls
                        /\ short_urls' = short_urls \cup {n}
                        /\ n.slug = req[c].loc.finalSlug]_vars

\* of two creations with the same caller-supplied slug that both passed the
\* existence check, the second has been answered 500; one row has the slug
C23_Witness ==
    /\ lastResp.op = "shorten"
    /\ lastResp.status = 500
    /\ Truthy(lastResp.req.body.slug)
    /\ Cardinality({l \in short_urls : l.slug = lastResp.req.body.slug.v}) = 1

-----------------------------------------------------------------------------
(* The credential of an event *)

\* the step adds one row to events
EventWritten == Len(events') = Len(events) + 1

\* C24: the credential an event row references belongs to the application
\* of the event and was usable, neither revoked nor expired, when the
\* request that wrote the row looked it up: for an ingested event at the
\* lookup of apiKeyAuth, for a short_url_click at the lookup of the
\* redirect.
C24_EventCredentialWasUsable ==
    [][/\ \A c \in Conns :
            AuthPasses(c) =>
              \E k \in api_keys : /\ k.id = req'[c].loc.app.apiKeyId
                                  /\ k.app_id = req'[c].loc.app.id
                                  /\ Usable(k, now)
       /\ EventWritten =>
            LET row == events'[Len(events')]
            IN IF \E c \in Conns : HandlerAnswers(c)
               THEN \A c \in Conns :
                      HandlerAnswers(c) => /\ row.api_key_id = req[c].loc.app.apiKeyId
                                           /\ row.app_id = req[c].loc.app.id
               ELSE \E k \in api_keys : /\ k.id = row.api_key_id
                                        /\ k.app_id = row.app_id
                                        /\ Usable(k, now)]_vars


-----------------------------------------------------------------------------
(* C25 *)

\* createShortUrl's request c goes on to its INSERT with a slug it generated
GeneratesSlug(c) ==
    /\ req[c].pc = "shorten"
    /\ req'[c].pc = "shorten_insert"
    /\ ~Truthy(req'[c].in.body.slug)

\* C25: when a short link is created without a slug, the generated slug is
\* exactly 8 characters long.
C25_GeneratedSlugHasEightChars ==
    [][\A c \in Conns :
         GeneratesSlug(c) => Len(req'[c].loc.finalSlug) = SLUG_CHARS]_vars

-----------------------------------------------------------------------------
(* C29 *)

\* C29: a link's click counter counts the redirects on its slug that
\* answered 302: a redirect that ends in a 500 response leaves the counter
\* of every link unchanged.
C29_FailedRedirectKeepsCounter ==
    [][RedirectAnswers500 =>
         \A l \in short_urls : After(l).click_count = l.click_count]_vars

-----------------------------------------------------------------------------
(* C26 *)

\* C26: events are append-only.  Every step leaves the rows written earlier
\* in place with the same field values and adds at most one row; a row is
\* added only by an ingestion answered 201 or by a redirect answered 302
\* whose link belongs to an application with a credential that is not
\* revoked, the one the row references.
C26_EventsAppendOnly ==
    [][/\ Len(events') >= Len(events)
       /\ SubSeq(events', 1, Len(events)) = events
       /\ Len(events') <= Len(events) + 1
       /\ EventWritten =>
            LET row == events'[Len(events')]
            IN \/ /\ lastResp'.op = "collect"
                  /\ lastResp'.status = 201
               \/ /\ lastResp'.op = "redirect"
                  /\ lastResp'.status = 302
                  /\ \E k \in api_keys : /\ k.id = row.api_key_id
                                          /\ k.app_id = row.app_id
                                          /\ k.is_revoked = FALSE]_vars

\* an ingested event and a click event are stored, the owner of the link
\* has since lost its last credential, and a further redirect through the
\* link has been answered 302 without a third row
C26_Witness ==
    /\ Len(events) = 2
    /\ events[1].event_name # <<"short_url_click">>
    /\ events[2].event_name = <<"short_url_click">>
    /\ lastResp.op = "redirect"
    /\ lastResp.status = 302
    /\ \E l \in short_urls :
         /\ SqlEq(l.slug, lastResp.req.slug)
         /\ l.click_count = 2
         /\ l.app_id = events[2].app_id
         /\ ActiveKeys(api_keys, l.app_id) = {}

-----------------------------------------------------------------------------
(* C27 *)

\* the protected routes
ProtectedOps == {"collect", "shorten"}

\* a step in which apiKeyAuth calls next() on connection c, for either route
AuthAdmits(c) == req[c].pc = "idle" /\ req'[c].pc \in ProtectedOps

\* a step in which apiKeyAuth answers by itself, for either route
AuthAnswers == lastResp = NoResp /\ lastResp'.op \in ProtectedOps /\ req' = req

\* C27: revocation is permanent.  No step sets is_revoked of a credential
\* back to false (the row stays, with its token, revoked), and an
\* authentication that presents the token of a revoked credential is never
\* let through: apiKeyAuth answers it 401.
C27_RevocationIsPermanent ==
    [][/\ \A k \in api_keys :
            k.is_revoked => \E m \in api_keys' : /\ m.id = k.id
                                                 /\ m.api_key = k.api_key
                                                 /\ m.is_revoked
       /\ \A c \in Conns : AuthAdmits(c) => ~TokenOfRevoked(req'[c].in.hdr)
       /\ (AuthAnswers /\ TokenOfRevoked(lastResp'.req.hdr)) =>
              lastResp'.status = 401]_vars

\* the token of a credential that regeneration revoked has just been
\* refused, while the application's new credential is in force
C27_Witness ==
    /\ lastResp.op \in ProtectedOps
    /\ lastResp.status = 401
    /\ \E k, n \in api_keys :
         /\ k.is_revoked
         /\ k.api_key = lastResp.req.hdr.v
         /\ n.app_id = k.app_id
         /\ n.is_revoked = FALSE

-----------------------------------------------------------------------------
(* C28 *)

\* a summary request has just been answered from the cache
AnsweredFromCache ==
    /\ lastResp = NoResp
    /\ lastResp'.op = "summary"
    /\ lastResp'.status = 200
    /\ lastResp'.data.cached

\* C28: the cache key is injective over the query: a request answered from
\* the cache receives a payload computed for its own event name, its own
\* application filter (none, or the same application id) and its own
\* resolved start and end instants.
C28_CacheKeyInjective ==
    [][AnsweredFromCache =>
         LET rq == lastResp'.req
             data == lastResp'.data.data
         IN /\ data.event_name = rq.q.event.v
            /\ data.app_id = (IF Truthy(rq.q.app_id) THEN rq.q.app_id.v ELSE SqlNull)
            /\ data.date_range.start = ToISOString(rq.start)
            /\ data.date_range.end = ToISOString(rq.end)]_vars

-----------------------------------------------------------------------------
(* C30 *)

\* the request leaves endDate or startDate to the default
DefaultWindow(q) == ~Truthy(q.endDate) \/ ~Truthy(q.startDate)

\* C30: an omitted endDate (or startDate) resolves to the request's own
\* current time (less seven days for the start), and the resolved instants
\* are part of the cache key: a default-window request is answered from the
\* cache only by an entry written at its own instant, so a request issued
\* at a later instant than an otherwise identical one is answered
\* cached=false, also within the TTL of the earlier one.
C30_DefaultWindowKeyedByInstant ==
    [][/\ \A c \in QueryConns :
            (req[c].pc = "idle" /\ req'[c].pc = "grouped") =>
               LET rq == req'[c].in
               IN /\ ~Truthy(rq.q.endDate) => rq.end = <<now>>
                  /\ ~Truthy(rq.q.startDate) => rq.start = <<now - SEVEN_DAYS_SEC>>
       /\ (AnsweredFromCache /\ DefaultWindow(lastResp'.req.q)) =>
            /\ \E e \in cache : /\ e.key = lastResp'.req.key
                                 /\ e.expires = now + CACHE_TTL_SEC
            /\ ~Truthy(lastResp'.req.q.endDate) =>
                  lastResp'.data.data.date_range.end = ToISOString(<<now>>)
            /\ ~Truthy(lastResp'.req.q.startDate) =>
                  lastResp'.data.data.date_range.start
                    = ToISOString(<<now - SEVEN_DAYS_SEC>>)]_vars

\* a request without dates has been answered cached=false while the entry
\* that the same request left at an earlier instant is still in the cache
C30_Witness ==
    /\ lastResp.op = "summary"
    /\ lastResp.status = 200
    /\ ~lastResp.data.cached
    /\ ~Truthy(lastResp.req.q.endDate)
    /\ ~Truthy(lastResp.req.q.startDate)
    /\ \E e \in cache :
         /\ e.key # lastResp.req.key
         /\ e.key = CacheKey(lastResp.req.q, <<0 - SEVEN_DAYS_SEC>>, <<0>>)
         /\ e.expires > now
         /\ now > 0

====
